---- MODULE Spec2Model ----
(***************************************************************************)
(* A model of the gpro tool-path planner and G-code emitter                *)
(* (src/src/gcode_generator.py and the modules of src/src/utils).         *)
(*                                                                         *)
(* Numbers.  The program computes with floating point numbers and prints   *)
(* them with a fixed number of decimals.  The model computes with exact    *)
(* rationals <<n, d>> (d > 0).  A length is measured in units of 0.0001    *)
(* inch and a feed rate in units of 0.1 inch/minute, so that printing a    *)
(* value (format_coordinate) is rounding the rational to an integer.       *)
(***************************************************************************)
EXTENDS Integers, Sequences, FiniteSets, TLC

VARIABLES
    material_depth,   \* WebGCodeGenerator.material_depth
    pass_depth,       \* ToolParams.pass_depth / pecking_depth given to the planner
    passes,           \* what iter_passes yielded, in order
    pecks,            \* what calculate_pass_depths returned
    pc,               \* where the modelled call sequence stands
    gen_settings,     \* GenerationSettings
    project,          \* what the caller hands to the generator or the service
    gen,              \* the WebGCodeGenerator object: subroutines,
                      \* used_subroutine_numbers, warnings
    results,          \* the GenerationResults returned so far, in order
    mach              \* the machine that runs the last emitted program

vars == <<material_depth, pass_depth, passes, pecks, pc,
          gen_settings, project, gen, results, mach>>

(***************************************************************************)
(* Exact rational arithmetic.                                              *)
(***************************************************************************)
Abs(n) == IF n < 0 THEN 0 - n ELSE n

RECURSIVE GCD(_, _)
GCD(a, b) == IF b = 0 THEN a ELSE GCD(b, a % b)

\* a rational in lowest terms, so that equal numbers are equal values
Lowest(n, d, g) == <<n \div g, d \div g>>
Rat(n, d) == Lowest(n, d, GCD(Abs(n), d))
FromInt(n) == <<n, 1>>
RMul(a, b) == Rat(a[1] * b[1], a[2] * b[2])
RAdd(a, b) == Rat(a[1] * b[2] + b[1] * a[2], a[2] * b[2])
RNeg(a) == <<0 - a[1], a[2]>>
RSub(a, b) == RAdd(a, RNeg(b))
RDivInt(a, n) == Rat(a[1], a[2] * n)
RSign(a) == IF a[1] > 0 THEN 1 ELSE IF a[1] < 0 THEN 0 - 1 ELSE 0
RAbs(a) == <<Abs(a[1]), a[2]>>
REq(a, b) == a[1] * b[2] = b[1] * a[2]
RLt(a, b) == a[1] * b[2] < b[1] * a[2]
RLe(a, b) == a[1] * b[2] <= b[1] * a[2]

\* floor and ceiling of a rational with positive denominator
\* (\div rounds towards minus infinity in TLA+)
Floor(a) == a[1] \div a[2]
Ceil(a) == 0 - ((0 - a[1]) \div a[2])

(***************************************************************************)
(* format_coordinate: a value printed with a fixed number of decimals.     *)
(* With the value held in units of the last printed digit this is          *)
(* rounding to the nearest integer; an exact tie goes to the even          *)
(* neighbour, as Python's formatting does for an exactly represented tie.  *)
(***************************************************************************)
\* fl is the integer below, twice / d is two times the fractional part
RoundHalfEven(fl, twice, d) ==
    IF twice < d THEN fl
    ELSE IF twice > d THEN fl + 1
    ELSE IF fl % 2 = 0 THEN fl ELSE fl + 1

FormatCoordinate(v) == RoundHalfEven(Floor(v), 2 * (v[1] % v[2]), v[2])

(***************************************************************************)
(* src/src/utils/multipass.py                                              *)
(***************************************************************************)
NumPassesFloor(total_depth, max_pass_depth) ==
    IF RLe(max_pass_depth, FromInt(0)) THEN 1
    ELSE LET q == Floor(<<total_depth[1] * max_pass_depth[2],
                          total_depth[2] * max_pass_depth[1]>>)
         IN  IF q > 1 THEN q ELSE 1

calculate_num_passes(total_depth, max_pass_depth) ==
    IF RLe(max_pass_depth, FromInt(0)) THEN 1
    ELSE LET q == Ceil(<<total_depth[1] * max_pass_depth[2],
                         total_depth[2] * max_pass_depth[1]>>)
         IN  IF q > 1 THEN q ELSE 1

\* the sequence of (pass_num, cumulative_depth, per_pass_depth) the generator yields
iter_passes(total_depth, max_pass_depth) ==
    LET num_passes == calculate_num_passes(total_depth, max_pass_depth)
        per_pass == RDivInt(total_depth, num_passes)
    IN  [k \in 1..num_passes |->
            [pass_num |-> k - 1,
             cumulative |-> RMul(FromInt(k), per_pass),
             per_pass |-> per_pass]]

\* passes of the maximum depth each, the last one taking the remainder
PassDepthsByMaxStep(total_depth, max_pass_depth) ==
    LET num_passes == calculate_num_passes(total_depth, max_pass_depth)
    IN  [i \in 1..num_passes |-> IF i < num_passes THEN RMul(FromInt(i), max_pass_depth)
                                  ELSE total_depth]

calculate_pass_depths(total_depth, max_pass_depth) ==
    LET num_passes == calculate_num_passes(total_depth, max_pass_depth)
        actual_pass_depth == RDivInt(total_depth, num_passes)
    IN  [i \in 1..num_passes |-> RMul(FromInt(i), actual_pass_depth)]

(***************************************************************************)
(* G-code lines.  A line is a record: g is the command word and the other  *)
(* fields are the words printed on the line (X, Y, Z, I, J in 0.0001 inch, *)
(* F in 0.1 inch/minute, P, L, S as printed, sub the number of the         *)
(* subroutine file an M98 names).  A word that is not printed is not a     *)
(* field of the record.  The field role is an annotation, not text: it     *)
(* names the statement of the source that emitted the line.                *)
(***************************************************************************)
Has(line, word) == word \in DOMAIN line

\* dict.get(key, default)
Get(dict, key, default) == IF key \in DOMAIN dict THEN dict[key] ELSE default

Ext(line, word, opt) == IF opt = <<>> THEN line ELSE (word :> opt[1]) @@ line

None == <<>>
Some(v) == <<v>>

\* src/src/utils/gcode_format.py
generate_rapid_move(x, y, z, role) ==
    Ext(Ext(Ext([g |-> "G00", role |-> role], "X", x), "Y", y), "Z", z)

generate_linear_move(x, y, z, feed, role) ==
    Ext(Ext(Ext(Ext([g |-> "G01", role |-> role], "X", x), "Y", y), "Z", z), "F", feed)

generate_arc_move(direction, x, y, i, j, feed, z, role) ==
    Ext(Ext([g |-> direction, role |-> role, X |-> x, Y |-> y, I |-> i, J |-> j],
            "Z", z), "F", feed)

generate_subroutine_call(sub_num, loop_count) ==
    [g |-> "M98", role |-> "call", sub |-> sub_num, L |-> loop_count]

generate_subroutine_end == << [g |-> "M99", role |-> "end"], [g |-> "%", role |-> "end"] >>

\* the spindle is started before the rapid move to the safety height
HeaderSpindleFirst(spindle_speed, warmup_seconds, safety_height) ==
    << [g |-> "G20 G90", role |-> "header"],
       [g |-> "G00", role |-> "header", X |-> 0, Y |-> 0, Z |-> 0],
       [g |-> "M03", role |-> "header", S |-> spindle_speed],
       [g |-> "G00", role |-> "header", Z |-> FormatCoordinate(safety_height)],
       [g |-> "G04", role |-> "header", P |-> warmup_seconds] >>

generate_header(spindle_speed, warmup_seconds, safety_height) ==
    << [g |-> "G20 G90", role |-> "header"],
       [g |-> "G00", role |-> "header", X |-> 0, Y |-> 0, Z |-> 0],
       [g |-> "G00", role |-> "header", Z |-> FormatCoordinate(safety_height)],
       [g |-> "M03", role |-> "header", S |-> spindle_speed],
       [g |-> "G04", role |-> "header", P |-> warmup_seconds] >>

generate_footer(safety_height) ==
    << [g |-> "M05", role |-> "footer"],
       [g |-> "G00", role |-> "footer", Z |-> FormatCoordinate(safety_height)],
       [g |-> "G00", role |-> "footer", X |-> 0, Y |-> 0],
       [g |-> "M30", role |-> "footer"] >>

Fmt(v) == Some(FormatCoordinate(v))

\* list.insert(index, item) of Python, index counted from 0
ListInsert(lines, index, item) ==
    IF index >= Len(lines) THEN Append(lines, item)
    ELSE SubSeq(lines, 1, index) \o <<item>> \o SubSeq(lines, index + 1, Len(lines))

\* annotations: lines of the main program that belong to one operation carry
\* kind and op (the index of the operation in the list handed to the generator)
Annotate(lines, field, value) == [ k \in 1..Len(lines) |-> (field :> value) @@ lines[k] ]
Tag(lines, kind, op) == Annotate(Annotate(lines, "kind", kind), "op", op)

\* the user's approach angle (0 = top, 90 = right, clockwise) as a math angle;
\* the model knows the four axis directions, where cosine and sine are exact
UserAngles == {0, 90, 180, 270}
CosUser(user_angle) ==
    CASE user_angle = 90 -> 1 [] user_angle = 270 -> 0 - 1 [] OTHER -> 0
SinUser(user_angle) ==
    CASE user_angle = 0 -> 1 [] user_angle = 180 -> 0 - 1 [] OTHER -> 0

(***************************************************************************)
(* src/src/utils/subroutine_generator.py                                   *)
(***************************************************************************)
DrillRangeStart == 1000
DrillRangeEnd == 1099
CircularRangeStart == 1100
CircularRangeEnd == 1199
HexagonalRangeStart == 1200
HexagonalRangeEnd == 1299
LineRangeStart == 1300
LineRangeEnd == 1399

SUBROUTINE_RANGES(operation_type) ==
    CASE operation_type = "drill" -> <<DrillRangeStart, DrillRangeEnd>>
      [] operation_type = "circular" -> <<CircularRangeStart, CircularRangeEnd>>
      [] operation_type = "hexagonal" -> <<HexagonalRangeStart, HexagonalRangeEnd>>
      [] operation_type = "line" -> <<LineRangeStart, LineRangeEnd>>
      [] OTHER -> <<DrillRangeStart, DrillRangeEnd>>

SeqRange(seq) == {seq[k] : k \in DOMAIN seq}

\* the first number of start..end that is not in existing, end + 1 when all are
FirstFree(free, end) ==
    IF free # {}
    THEN CHOOSE num \in free : \A other \in free : num <= other
    ELSE end + 1

NextInRange(range, taken) ==
    FirstFree({num \in range[1]..range[2] : num \notin taken}, range[2])

get_next_subroutine_number(operation_type, existing) ==
    NextInRange(SUBROUTINE_RANGES(operation_type), SeqRange(existing))

generate_subroutine_file(commands) == commands \o generate_subroutine_end

\* the preamble with the descent programmed as an absolute Z word
CutPreambleAbsolute(cut_pass_depth, plunge_rate) ==
    << [g |-> "G90", role |-> "mode"],
       generate_linear_move(None, None, Fmt(RNeg(cut_pass_depth)), Fmt(plunge_rate), "descent"),
       [g |-> "G90", role |-> "mode"] >>
generate_cut_preamble(cut_pass_depth, plunge_rate) ==
    << [g |-> "G91", role |-> "mode"],
       generate_linear_move(None, None, Fmt(RNeg(cut_pass_depth)), Fmt(plunge_rate), "descent"),
       [g |-> "G90", role |-> "mode"] >>

generate_ramp_preamble_circle(lead_in_distance, cut_pass_depth, plunge_rate, approach_angle) ==
    LET dx == RMul(RNeg(lead_in_distance), FromInt(CosUser(approach_angle)))
        dy == RMul(RNeg(lead_in_distance), FromInt(SinUser(approach_angle)))
    IN  IF dy[1] = 0   \* abs(dy) < 0.0001: the sine is 0 on the X axis
        THEN << [g |-> "G91", role |-> "mode"],
                generate_linear_move(Fmt(dx), None, Fmt(RNeg(cut_pass_depth)),
                                     Fmt(plunge_rate), "descent"),
                [g |-> "G90", role |-> "mode"] >>
        ELSE << [g |-> "G91", role |-> "mode"],
                generate_linear_move(Fmt(dx), Fmt(dy), Fmt(RNeg(cut_pass_depth)),
                                     Fmt(plunge_rate), "descent"),
                [g |-> "G90", role |-> "mode"] >>

generate_ramp_preamble_absolute(lead_in, profile_start, cut_pass_depth, plunge_rate) ==
    LET dx == RSub(profile_start[1], lead_in[1])
        dy == RSub(profile_start[2], lead_in[2])
    IN  << [g |-> "G91", role |-> "mode"],
           generate_linear_move(Fmt(dx), Fmt(dy), Fmt(RNeg(cut_pass_depth)),
                                Fmt(plunge_rate), "descent"),
           [g |-> "G90", role |-> "mode"] >>

\* G04 P<int(hold_time * 1000)>, inserted after the first line of the preamble
HoldDwell(lines, hold_time) ==
    IF RLt(FromInt(0), hold_time)
    THEN ListInsert(lines, 1, [g |-> "G04", role |-> "dwell",
                               P |-> Floor(RMul(hold_time, FromInt(1000)))])
    ELSE lines

RECURSIVE PeckLines(_, _, _, _)
PeckLines(peck_list, k, current_depth, plunge_rate) ==
    IF k > Len(peck_list) THEN <<>>
    ELSE LET depth_increment == RSub(peck_list[k], current_depth)
         IN  << generate_linear_move(None, None, Fmt(RNeg(depth_increment)),
                                     Fmt(plunge_rate), "peck"),
                generate_rapid_move(None, None, Fmt(peck_list[k]), "peck_retract") >>
             \o PeckLines(peck_list, k + 1, FromInt(0), plunge_rate)

\* the peck drill subroutine, were it to step to the next hole without the
\* retract to the travel height
PeckDrillSubroutineStepAtSurface(peck_list, plunge_rate, travel_height, axis, spacing) ==
    generate_subroutine_file(
        << generate_rapid_move(None, None, Some(0), "surface"),
           [g |-> "G91", role |-> "mode"] >>
        \o PeckLines(peck_list, 1, FromInt(0), plunge_rate)
        \o << IF axis = "x"
              THEN generate_rapid_move(Fmt(spacing), None, None, "step")
              ELSE generate_rapid_move(None, Fmt(spacing), None, "step") >>
        \o << [g |-> "G90", role |-> "mode"] >>)

generate_peck_drill_subroutine(peck_list, plunge_rate, travel_height, axis, spacing) ==
    generate_subroutine_file(
        << generate_rapid_move(None, None, Some(0), "surface"),
           [g |-> "G91", role |-> "mode"] >>
        \o PeckLines(peck_list, 1, FromInt(0), plunge_rate)
        \o << generate_rapid_move(None, None, Fmt(travel_height), "retract") >>
        \o << IF axis = "x"
              THEN generate_rapid_move(Fmt(spacing), None, None, "step")
              ELSE generate_rapid_move(None, Fmt(spacing), None, "step") >>
        \o << [g |-> "G90", role |-> "mode"] >>)

(***************************************************************************)
(* src/src/utils/safety: the chain of feed adjusters.  A context is        *)
(* [pass_num, is_arc, corner_factor]; settings is GenerationSettings.      *)
(***************************************************************************)
One == FromInt(1)
Zero == FromInt(0)

FirstPassAdjuster_is_enabled(settings) == RLt(settings.first_pass_feed_factor, One)
FirstPassAdjuster_adjust_feed(settings, feed, context) ==
    IF context.pass_num = 0 THEN RMul(feed, settings.first_pass_feed_factor) ELSE feed

CornerSlowdownAdjuster_is_enabled(settings) == settings.corner_slowdown_enabled
CornerSlowdownAdjuster_adjust_feed(settings, feed, context) ==
    IF RLt(context.corner_factor, One)
    THEN RMul(RMul(feed, settings.corner_feed_factor), context.corner_factor)
    ELSE feed

ArcSlowdownAdjuster_is_enabled(settings) == settings.arc_slowdown_enabled
ArcSlowdownAdjuster_adjust_feed(settings, feed, context) ==
    IF context.is_arc THEN RMul(feed, settings.arc_feed_factor) ELSE feed

\* SafetyCoordinator.get_adjusted_feed with the adjusters in registration order
FirstPassStep(settings, feed, context) ==
    IF FirstPassAdjuster_is_enabled(settings)
    THEN FirstPassAdjuster_adjust_feed(settings, feed, context)
    ELSE feed

CornerSlowdownStep(settings, feed, context) ==
    IF CornerSlowdownAdjuster_is_enabled(settings)
    THEN CornerSlowdownAdjuster_adjust_feed(settings, feed, context)
    ELSE feed

ArcSlowdownStep(settings, feed, context) ==
    IF ArcSlowdownAdjuster_is_enabled(settings)
    THEN ArcSlowdownAdjuster_adjust_feed(settings, feed, context)
    ELSE feed

get_adjusted_feed(settings, base_feed, context) ==
    ArcSlowdownStep(settings,
        CornerSlowdownStep(settings,
            FirstPassStep(settings, base_feed, context), context), context)

\* WebGCodeGenerator._get_adjusted_feed
AdjustedFeed(settings, base_feed_rate, pass_num, is_arc, corner_factor) ==
    get_adjusted_feed(settings, base_feed_rate,
                      [pass_num |-> pass_num, is_arc |-> is_arc,
                       corner_factor |-> corner_factor])

(***************************************************************************)
(* Path points of a line cut.  A point is                                  *)
(*   [x, y, line_type, arc_center_x, arc_center_y, arc_direction]          *)
(* with line_type "straight" or "arc" and arc_direction "cw", "ccw" or     *)
(* "auto" (no hint stored).  Coordinates of the stored points lie on the   *)
(* 0.0001 inch grid; every arc point carries its centre.                   *)
(***************************************************************************)
Straight(x, y) ==
    [x |-> FromInt(x), y |-> FromInt(y), line_type |-> "straight",
     arc_center_x |-> FromInt(x), arc_center_y |-> FromInt(y), arc_direction |-> "auto"]

Arc(x, y, cx, cy, hint) ==
    [x |-> FromInt(x), y |-> FromInt(y), line_type |-> "arc",
     arc_center_x |-> FromInt(cx), arc_center_y |-> FromInt(cy), arc_direction |-> hint]

\* src/src/utils/arc_utils.py
calculate_arc_direction(current, destination, center, direction_hint) ==
    IF direction_hint = "cw" THEN "G02"
    ELSE IF direction_hint = "ccw" THEN "G03"
    ELSE LET cross == RSub(RMul(RSub(current[1], center[1]), RSub(destination[2], center[2])),
                           RMul(RSub(current[2], center[2]), RSub(destination[1], center[1])))
         IN  IF RLt(Zero, cross) THEN "G03" ELSE "G02"

calculate_ij_offsets(current, center) ==
    <<RSub(center[1], current[1]), RSub(center[2], current[2])>>

\* src/src/utils/lead_in.py: is_closed_path, tolerance 0.0001 inch = 1 unit
is_closed_path(path) ==
    IF Len(path) < 2 THEN FALSE
    ELSE /\ RLt(RAbs(RSub(path[1].x, path[Len(path)].x)), One)
         /\ RLt(RAbs(RSub(path[1].y, path[Len(path)].y)), One)

(***************************************************************************)
(* src/src/utils/validators.py: validate_arc_geometry.                     *)
(* The radii are square roots; |sqrt a - sqrt b| > t is decided exactly    *)
(* on the squares: with a >= b and u = a - b - t^2 it is u > 0 and         *)
(* u^2 > 4 t^2 b.                                                          *)
(***************************************************************************)
ArcTolerance == 10    \* 0.001 inch

RadiiDiffer(a, b, t) ==
    LET hi == IF a >= b THEN a ELSE b
        lo == IF a >= b THEN b ELSE a
        u == hi - lo - t * t
    IN  u > 0 /\ u > (4 * t * t * lo) \div u

PointHasInvalidArc(path, i) ==
    /\ path[i].line_type = "arc"
    /\ i > 1
    /\ LET sx == Floor(RSub(path[i - 1].x, path[i].arc_center_x))
           sy == Floor(RSub(path[i - 1].y, path[i].arc_center_y))
           ex == Floor(RSub(path[i].x, path[i].arc_center_x))
           ey == Floor(RSub(path[i].y, path[i].arc_center_y))
       IN  RadiiDiffer(sx * sx + sy * sy, ex * ex + ey * ey, ArcTolerance)

\* one warning per offending point: the index of the point (counted from 0)
\* stands for the text of the message
RECURSIVE ArcWarningsFrom(_, _)
ArcWarningsFrom(path, i) ==
    IF i > Len(path) THEN <<>>
    ELSE (IF path[i].line_type = "arc" /\ i = 1
          THEN << [kind |-> "arc_first_point", point |-> i - 1] >>
          ELSE IF PointHasInvalidArc(path, i)
          THEN << [kind |-> "arc_radius_mismatch", point |-> i - 1] >>
          ELSE <<>>)
         \o ArcWarningsFrom(path, i + 1)

validate_arc_geometry(path) == ArcWarningsFrom(path, 1)

(***************************************************************************)
(* Square roots.  math.sqrt is modelled to a tenth of a unit (0.00001      *)
(* inch); it is exact where the root is a whole number of tenths, as for   *)
(* axis-parallel segments between grid points.                             *)
(***************************************************************************)
RECURSIVE IsqrtIter(_, _)
IsqrtIter(n, x) ==
    LET y == (x + n \div x) \div 2
    IN  IF y >= x THEN x ELSE IsqrtIter(n, y)

Isqrt(n) == IF n < 2 THEN n ELSE IsqrtIter(n, n)

RDiv(a, b) == IF b[1] < 0 THEN Rat((0 - a[1]) * b[2], a[2] * (0 - b[1]))
              ELSE Rat(a[1] * b[2], a[2] * b[1])

Sqrt(a) == Rat(Isqrt((a[1] * 100) \div a[2]), 10)

Hypot(dx, dy) == Sqrt(RAdd(RMul(dx, dx), RMul(dy, dy)))

(***************************************************************************)
(* src/src/utils/tool_compensation.py and src/src/hexagon_generator.py     *)
(***************************************************************************)
get_compensation_offset(tool_diameter, compensation) ==
    IF compensation = "interior" THEN RNeg(RDivInt(tool_diameter, 2))
    ELSE IF compensation = "exterior" THEN RDivInt(tool_diameter, 2)
    ELSE Zero

calculate_cut_radius(feature_diameter, tool_diameter, compensation) ==
    RAdd(RDivInt(feature_diameter, 2), get_compensation_offset(tool_diameter, compensation))

\* 1/sqrt(3) to six decimals
InvSqrt3 == Rat(577350, 1000000)

\* the six vertices, clockwise from the top one, held to the 0.0001 inch grid.
\* Offsetting every vertex towards the centre by tool_radius * 2 / sqrt(3)
\* is shrinking the circumradius by that amount.
Grid(v) == FromInt(FormatCoordinate(v))

\* the vertices from the six offsets <<ex, ey>> from the centre
VerticesAt(center_x, center_y, offsets) ==
    [ k \in 1..6 |-> << Grid(RAdd(center_x, offsets[k][1])),
                        Grid(RAdd(center_y, offsets[k][2])) >> ]

\* half is half the distance across flats, r the circumradius, r2 half of it
HexagonOffsets(half, r, r2) ==
    << << Zero, r >>, << half, r2 >>, << half, RNeg(r2) >>,
       << Zero, RNeg(r) >>, << RNeg(half), RNeg(r2) >>, << RNeg(half), r2 >> >>

HexagonOfWidth(center_x, center_y, across) ==
    VerticesAt(center_x, center_y,
               HexagonOffsets(RDivInt(across, 2), RMul(across, InvSqrt3),
                              RDivInt(RMul(across, InvSqrt3), 2)))

calculate_compensated_vertices(center_x, center_y, flat_to_flat, tool_diameter, compensation) ==
    HexagonOfWidth(center_x, center_y,
                   IF compensation = "interior" THEN RSub(flat_to_flat, tool_diameter)
                   ELSE IF compensation = "exterior" THEN RAdd(flat_to_flat, tool_diameter)
                   ELSE flat_to_flat)

(***************************************************************************)
(* src/src/utils/lead_in.py: where a ramp lead-in starts                   *)
(***************************************************************************)
DefaultLeadInDistance == 2500    \* 0.25 inch

\* cotangent of the ramp angle, for the ramp angles the model tries
Cot(ramp_angle) == IF ramp_angle = 45 THEN One ELSE Rat(190811, 10000)   \* 3 degrees

calculate_lead_in_distance(ramp_angle, cut_pass_depth) ==
    IF ramp_angle <= 0 \/ RLe(cut_pass_depth, Zero)
    THEN FromInt(DefaultLeadInDistance)
    ELSE RMul(cut_pass_depth, Cot(ramp_angle))

calculate_circle_lead_in_point(center_x, center_y, cut_radius, lead_in_distance, approach_angle) ==
    << RAdd(center_x, RMul(RAdd(cut_radius, lead_in_distance), FromInt(CosUser(approach_angle)))),
       RAdd(center_y, RMul(RAdd(cut_radius, lead_in_distance), FromInt(SinUser(approach_angle)))) >>

\* approach_angle is None (<<>>) or Some(angle)
calculate_hexagon_lead_in_point(vertices, lead_in_distance, center, approach_angle) ==
    LET v0 == vertices[1]
        v1 == vertices[2]
    IN  IF approach_angle # None
        THEN LET vertex_dist == Hypot(RSub(v0[1], center[1]), RSub(v0[2], center[2]))
             IN  << RAdd(center[1], RMul(RAdd(vertex_dist, lead_in_distance),
                                         FromInt(CosUser(approach_angle[1])))),
                    RAdd(center[2], RMul(RAdd(vertex_dist, lead_in_distance),
                                         FromInt(SinUser(approach_angle[1])))) >>
        ELSE LET dx == RSub(v1[1], v0[1])
                 dy == RSub(v1[2], v0[2])
                 length == Hypot(dx, dy)
             IN  IF RLt(length, One) THEN v0
                 ELSE << RSub(v0[1], RMul(RDiv(dx, length), lead_in_distance)),
                         RSub(v0[2], RMul(RDiv(dy, length), lead_in_distance)) >>

\* compensation 'none' or an open path: back along the first segment
calculate_line_lead_in_point(path, lead_in_distance, approach_angle) ==
    IF Len(path) < 2 THEN << path[1].x, path[1].y >>
    ELSE IF approach_angle # None
    THEN << RAdd(path[1].x, RMul(lead_in_distance, FromInt(CosUser(approach_angle[1])))),
            RAdd(path[1].y, RMul(lead_in_distance, FromInt(SinUser(approach_angle[1])))) >>
    ELSE LET dx == RSub(path[2].x, path[1].x)
             dy == RSub(path[2].y, path[1].y)
             length == Hypot(dx, dy)
         IN  IF RLt(length, One) THEN << path[1].x, path[1].y >>
             ELSE << RSub(path[1].x, RMul(RDiv(dx, length), lead_in_distance)),
                     RSub(path[1].y, RMul(RDiv(dy, length), lead_in_distance)) >>

(***************************************************************************)
(* src/src/utils/lead_in.py: the helical lead-in, a spiral descent on full *)
(* clockwise circles about the centre of the shape.                        *)
(***************************************************************************)
MIN_HELIX_RADIUS == 500    \* 0.05 inch

HelixClearance == 250    \* 0.025 inch, the default of the parameter clearance

RMin(a, b) == IF RLe(a, b) THEN a ELSE b

\* the helix radius once the room for it is known; None if there is too little
HelixRadiusWithin(available_radius, tool_radius) ==
    IF RLt(available_radius, FromInt(MIN_HELIX_RADIUS)) THEN None
    ELSE IF RLt(RMin(available_radius, RAdd(tool_radius, FromInt(HelixClearance))),
                FromInt(MIN_HELIX_RADIUS))
    THEN None
    ELSE Some(RMin(available_radius, RAdd(tool_radius, FromInt(HelixClearance))))

calculate_helix_radius_for_circle(cut_radius, tool_diameter) ==
    HelixRadiusWithin(RSub(cut_radius, FromInt(HelixClearance)), RDivInt(tool_diameter, 2))

calculate_helix_radius_for_hexagon(flat_to_flat, tool_diameter, compensation) ==
    LET tool_radius == RDivInt(tool_diameter, 2)
        apothem == RDivInt(flat_to_flat, 2)
    IN  HelixRadiusWithin(
            IF compensation = "interior"
            THEN RSub(RSub(apothem, tool_radius), FromInt(HelixClearance))
            ELSE RSub(apothem, FromInt(HelixClearance)),
            tool_radius)

calculate_helix_start_point(center_x, center_y, helix_radius, approach_angle) ==
    << RAdd(center_x, RMul(helix_radius, FromInt(CosUser(approach_angle)))),
       RAdd(center_y, RMul(helix_radius, FromInt(SinUser(approach_angle)))) >>

calculate_helix_revolutions(target_depth, helix_pitch) ==
    IF RLe(helix_pitch, Zero) THEN 1
    ELSE LET revolutions == Ceil(RDiv(target_depth, helix_pitch))
         IN  IF revolutions > 1 THEN revolutions ELSE 1

\* the share of the way from the plunge rate to the end feed that revolution
\* rev, counted from 0, is cut at
StepPercentage(revolutions, rev) ==
    IF revolutions = 1 THEN Rat(3, 4)
    ELSE IF revolutions = 2 THEN (IF rev = 0 THEN Rat(1, 2) ELSE Rat(3, 4))
    ELSE IF rev = 0 THEN Rat(1, 4) ELSE IF rev = 1 THEN Rat(1, 2) ELSE Rat(3, 4)

\* end_feed is None or Some(feed)
generate_helical_lead_in(center_x, center_y, helix_radius, target_depth, helix_pitch, plunge_rate, approach_angle, end_feed) ==
    LET revolutions == calculate_helix_revolutions(target_depth, helix_pitch)
        start == calculate_helix_start_point(center_x, center_y, helix_radius, approach_angle)
        i_offset == RMul(RNeg(helix_radius), FromInt(CosUser(approach_angle)))
        j_offset == RMul(RNeg(helix_radius), FromInt(SinUser(approach_angle)))
        depth_per_rev == RDivInt(target_depth, revolutions)
        Feed(rev) == IF end_feed # None
                     THEN RAdd(plunge_rate, RMul(RSub(end_feed[1], plunge_rate),
                                                 StepPercentage(revolutions, rev)))
                     ELSE plunge_rate
    IN  [ n \in 1..revolutions |->
            generate_arc_move("G02", FormatCoordinate(start[1]), FormatCoordinate(start[2]),
                              FormatCoordinate(i_offset), FormatCoordinate(j_offset),
                              Fmt(Feed(n - 1)),
                              Fmt(RNeg(RMul(FromInt(n), depth_per_rev))), "helix") ]

generate_helical_to_profile_circle(center_x, center_y, helix_radius, cut_radius, feed_rate, approach_angle) ==
    IF RLt(RAbs(RSub(helix_radius, cut_radius)), FromInt(10)) THEN <<>>
    ELSE << generate_arc_move("G02",
                FormatCoordinate(RAdd(center_x, RMul(cut_radius,
                                                     FromInt(CosUser(approach_angle))))),
                FormatCoordinate(RAdd(center_y, RMul(cut_radius,
                                                     FromInt(SinUser(approach_angle))))),
                FormatCoordinate(RMul(RNeg(helix_radius), FromInt(CosUser(approach_angle)))),
                FormatCoordinate(RMul(RNeg(helix_radius), FromInt(SinUser(approach_angle)))),
                Fmt(feed_rate), None, "transition") >>

generate_helical_to_profile_hexagon(helix_end_x, helix_end_y, first_vertex_x, first_vertex_y, feed_rate, approach_angle) ==
    << generate_linear_move(Fmt(first_vertex_x), Fmt(first_vertex_y), None, Fmt(feed_rate),
                            "transition") >>

\* the text Z<-pass_depth> of a line is replaced by Z<-cumulative_depth>;
\* a line whose Z word reads otherwise is left as it is
adjust_helix_depth(helix_lines, cut_pass_depth, cumulative_depth) ==
    [ n \in 1..Len(helix_lines) |->
        IF Has(helix_lines[n], "Z")
           /\ helix_lines[n].Z = FormatCoordinate(RNeg(cut_pass_depth))
        THEN [helix_lines[n] EXCEPT !.Z = FormatCoordinate(RNeg(cumulative_depth))]
        ELSE helix_lines[n] ]

(***************************************************************************)
(* src/src/utils/corner_detection.py.  A direction is an integer vector;   *)
(* dividing it by the gcd of its components keeps the direction.  The      *)
(* angle between two directions is compared with 120, 90, 60 and 30        *)
(* degrees on the cosine: with d the dot product and m the product of the  *)
(* squared lengths, cos = d / sqrt(m).                                     *)
(***************************************************************************)
ReduceBy(v, g) == IF g = 0 THEN <<1, 0>> ELSE << v[1] \div g, v[2] \div g >>
ReduceVec(v) == ReduceBy(v, GCD(Abs(v[1]), Abs(v[2])))

\* unit direction from p1 to p2; (1, 0) when the points coincide
calculate_direction_vector(p1, p2) ==
    ReduceVec(<< Floor(RSub(p2[1], p1[1])), Floor(RSub(p2[2], p1[2])) >>)

\* the tangent to the radius vector <<rx, ry>>
Perpendicular(radius, direction) ==
    IF direction = "G03" THEN << 0 - radius[2], radius[1] >>
    ELSE << radius[2], 0 - radius[1] >>

get_arc_tangent_at_point(center, point, direction) ==
    ReduceVec(Perpendicular(<< Floor(RSub(point[1], center[1])),
                               Floor(RSub(point[2], center[2])) >>, direction))

Dot(v1, v2) == v1[1] * v2[1] + v1[2] * v2[2]
SqLen(v) == v[1] * v[1] + v[2] * v[2]

\* angle_between_vectors(v1, v2) >= degrees, for degrees in {30, 60, 90, 120}
\* d is the dot product and m the product of the squared lengths
CosineAtMost(d, m, degrees) ==
    CASE degrees = 120 -> d < 0 /\ 4 * d * d >= m
      [] degrees = 90 -> d <= 0
      [] degrees = 60 -> d <= 0 \/ 4 * d * d <= m
      [] OTHER -> d <= 0 \/ 4 * d * d <= 3 * m

AngleAtLeast(v1, v2, degrees) == CosineAtMost(Dot(v1, v2), SqLen(v1) * SqLen(v2), degrees)

\* 'cw' and 'ccw' are translated; a point without hint counts as 'G02'
TangentDirection(point) == IF point.arc_direction = "ccw" THEN "G03" ELSE "G02"

Incoming(path, i) ==
    IF path[i].line_type = "arc"
    THEN get_arc_tangent_at_point(<< path[i].arc_center_x, path[i].arc_center_y >>,
                                  << path[i].x, path[i].y >>, TangentDirection(path[i]))
    ELSE calculate_direction_vector(<< path[i - 1].x, path[i - 1].y >>,
                                    << path[i].x, path[i].y >>)

Outgoing(path, i) ==
    IF path[i + 1].line_type = "arc"
    THEN get_arc_tangent_at_point(<< path[i + 1].arc_center_x, path[i + 1].arc_center_y >>,
                                  << path[i].x, path[i].y >>, TangentDirection(path[i + 1]))
    ELSE calculate_direction_vector(<< path[i].x, path[i].y >>,
                                    << path[i + 1].x, path[i + 1].y >>)

\* the indices (counted from 1) of the points identify_corners reports:
\* interior points whose angle is below the threshold of 120 degrees
identify_corners(path) ==
    IF Len(path) < 3 THEN {}
    ELSE { i \in 2..(Len(path) - 1) :
             ~AngleAtLeast(Incoming(path, i), Outgoing(path, i), 120) }

\* calculate_corner_feed_factor of the angle at point i
\* the factor from the dot product d and the product m of the squared lengths
FactorOfCosine(d, m) ==
    IF CosineAtMost(d, m, 120) THEN One
    ELSE IF CosineAtMost(d, m, 90) THEN <<3, 4>>
    ELSE IF CosineAtMost(d, m, 60) THEN <<1, 2>>
    ELSE IF CosineAtMost(d, m, 30) THEN <<2, 5>>
    ELSE <<3, 10>>

FactorOfAngle(v1, v2) == FactorOfCosine(Dot(v1, v2), SqLen(v1) * SqLen(v2))

calculate_corner_feed_factor(path, i) == FactorOfAngle(Incoming(path, i), Outgoing(path, i))

\* the path with a corner_feed_factor on every point
generate_corner_slowdown_points(path, base_feed_factor) ==
    [ i \in 1..Len(path) |->
        [ point |-> path[i],
          corner_feed_factor |->
              IF i \in identify_corners(path)
              THEN RMul(base_feed_factor, calculate_corner_feed_factor(path, i))
              ELSE One ] ]

\* the path as it is when corner slowdown is switched off: no factor stored,
\* and the reader's default of 1.0 applies
WithoutCornerFactors(path) ==
    [ i \in 1..Len(path) |-> [ point |-> path[i], corner_feed_factor |-> One ] ]

(***************************************************************************)
(* src/src/utils/subroutine_generator.py: one pass of a cut as a           *)
(* subroutine body.  The entries modelled are the vertical plunge and the  *)
(* ramp.                                                                   *)
(***************************************************************************)
generate_circle_pass_subroutine(cut_radius, cut_pass_depth, plunge_rate, feed_rate, lead_in_distance, lead_in_type, approach_angle, hold_time, arc_feed_factor) ==
    LET arc_feed == RMul(feed_rate, arc_feed_factor)
        ramp == lead_in_type = "ramp" /\ lead_in_distance # None
                /\ RLt(Zero, lead_in_distance[1])
        preamble == IF ramp
                    THEN generate_ramp_preamble_circle(lead_in_distance[1], cut_pass_depth,
                                                       plunge_rate, approach_angle)
                    ELSE generate_cut_preamble(cut_pass_depth, plunge_rate)
        i_offset == RMul(RNeg(cut_radius), FromInt(CosUser(approach_angle)))
        j_offset == RMul(RNeg(cut_radius), FromInt(SinUser(approach_angle)))
        circle == [g |-> "G02", role |-> "profile", I |-> FormatCoordinate(i_offset),
                   J |-> FormatCoordinate(j_offset), F |-> FormatCoordinate(arc_feed)]
        delta_x == RMul(lead_in_distance[1], FromInt(CosUser(approach_angle)))
        delta_y == RMul(lead_in_distance[1], FromInt(SinUser(approach_angle)))
        lead_out == IF ~ramp THEN <<>>
                    ELSE << [g |-> "G91", role |-> "mode"],
                            IF delta_y[1] = 0
                            THEN generate_linear_move(Fmt(delta_x), None, None,
                                                      Fmt(feed_rate), "leadout")
                            ELSE generate_linear_move(Fmt(delta_x), Fmt(delta_y), None,
                                                      Fmt(feed_rate), "leadout"),
                            [g |-> "G90", role |-> "mode"] >>
    IN  generate_subroutine_file(HoldDwell(preamble, hold_time) \o <<circle>> \o lead_out)

\* lead_in_point is None or Some(<<x, y>>)
generate_hexagon_pass_subroutine(vertices, cut_pass_depth, plunge_rate, feed_rate, lead_in_point, lead_in_type, hold_time) ==
    LET ramp == lead_in_type = "ramp" /\ lead_in_point # None
        preamble == IF ramp
                    THEN generate_ramp_preamble_absolute(lead_in_point[1], vertices[1],
                                                         cut_pass_depth, plunge_rate)
                    ELSE generate_cut_preamble(cut_pass_depth, plunge_rate)
        edges == [ i \in 1..(Len(vertices) - 1) |->
                     generate_linear_move(Fmt(vertices[i + 1][1]), Fmt(vertices[i + 1][2]),
                                          None, Fmt(feed_rate), "profile") ]
        close == generate_linear_move(Fmt(vertices[1][1]), Fmt(vertices[1][2]),
                                      None, None, "profile")
        lead_out == IF ramp
                    THEN << generate_linear_move(Fmt(lead_in_point[1][1]),
                                                 Fmt(lead_in_point[1][2]),
                                                 None, None, "leadout") >>
                    ELSE <<>>
    IN  generate_subroutine_file(HoldDwell(preamble, hold_time) \o edges \o <<close>> \o lead_out)

\* the move that takes the tool to path[i] (i >= 2) inside a line subroutine
LineSubroutineMove(path, i, feed_rate) ==
    IF path[i].line_type = "arc"
    THEN LET current == << path[i - 1].x, path[i - 1].y >>
             center == << path[i].arc_center_x, path[i].arc_center_y >>
             direction == calculate_arc_direction(current, << path[i].x, path[i].y >>,
                                                  center, path[i].arc_direction)
         IN  generate_arc_move(direction, FormatCoordinate(path[i].x),
                               FormatCoordinate(path[i].y),
                               FormatCoordinate(RSub(center[1], current[1])),
                               FormatCoordinate(RSub(center[2], current[2])),
                               Fmt(feed_rate), None, "profile")
    ELSE generate_linear_move(Fmt(path[i].x), Fmt(path[i].y), None, Fmt(feed_rate), "profile")

\* the line subroutine, were it to return to the lead-in point after open
\* paths as well
LinePathSubroutineAlwaysLeadOut(path, cut_pass_depth, plunge_rate, feed_rate, lead_in_point, hold_time) ==
    IF path = <<>> THEN generate_subroutine_file(<<>>)
    ELSE
    LET preamble == IF lead_in_point # None
                    THEN generate_ramp_preamble_absolute(lead_in_point[1],
                                                         << path[1].x, path[1].y >>,
                                                         cut_pass_depth, plunge_rate)
                    ELSE generate_cut_preamble(cut_pass_depth, plunge_rate)
        moves == [ k \in 1..(Len(path) - 1) |-> LineSubroutineMove(path, k + 1, feed_rate) ]
        lead_out == IF lead_in_point # None
                    THEN << generate_linear_move(Fmt(lead_in_point[1][1]),
                                                 Fmt(lead_in_point[1][2]),
                                                 None, None, "leadout") >>
                    ELSE <<>>
    IN  generate_subroutine_file(HoldDwell(preamble, hold_time) \o moves \o lead_out)

generate_line_path_subroutine(path, cut_pass_depth, plunge_rate, feed_rate, lead_in_point, hold_time) ==
    IF path = <<>> THEN generate_subroutine_file(<<>>)
    ELSE
    LET preamble == IF lead_in_point # None
                    THEN generate_ramp_preamble_absolute(lead_in_point[1],
                                                         << path[1].x, path[1].y >>,
                                                         cut_pass_depth, plunge_rate)
                    ELSE generate_cut_preamble(cut_pass_depth, plunge_rate)
        moves == [ k \in 1..(Len(path) - 1) |-> LineSubroutineMove(path, k + 1, feed_rate) ]
        lead_out == IF lead_in_point # None /\ is_closed_path(path)
                    THEN << generate_linear_move(Fmt(lead_in_point[1][1]),
                                                 Fmt(lead_in_point[1][2]),
                                                 None, None, "leadout") >>
                    ELSE <<>>
    IN  generate_subroutine_file(HoldDwell(preamble, hold_time) \o moves \o lead_out)

(***************************************************************************)
(* src/src/gcode_generator.py: inline emission of a cut.                   *)
(* A move is [x, y, move_type, arc_center_x, arc_center_y, arc_direction,  *)
(* i_offset, j_offset, corner_feed_factor]; a cut path configuration is    *)
(* [moves, profile_start, lead_in_type, lead_in_point, is_closed,          *)
(* apply_corner_slowdown].  Lines emitted for a pass carry the annotation  *)
(* pass = pass_num.                                                        *)
(***************************************************************************)
DefaultPassDepth == 250      \* params.pass_depth or 0.025
DefaultPeckingDepth == 500   \* params.pecking_depth or 0.05

\* Python's "value or default" on a number
OrDefault(value, default) == IF value[1] = 0 THEN FromInt(default) ELSE value

PathMove(x, y, move_type, corner_feed_factor) ==
    [x |-> x, y |-> y, move_type |-> move_type, arc_center_x |-> x, arc_center_y |-> y,
     arc_direction |-> "auto", i_offset |-> Zero, j_offset |-> Zero,
     corner_feed_factor |-> corner_feed_factor]

\* WebGCodeGenerator._generate_move_from_path
\* the arc_direction stored on the move is what is printed as the command
\* word; the direction is computed only when nothing is stored
InlineDirection(move, current_pos) ==
    IF move.arc_direction = "auto"
    THEN calculate_arc_direction(current_pos, << move.x, move.y >>,
                                 << move.arc_center_x, move.arc_center_y >>, "auto")
    ELSE move.arc_direction

generate_move_from_path(move, current_pos, feed) ==
    IF move.move_type = "full_circle"
    THEN [g |-> "G02", role |-> "profile", I |-> FormatCoordinate(move.i_offset),
          J |-> FormatCoordinate(move.j_offset), F |-> FormatCoordinate(feed)]
    ELSE IF move.move_type = "arc"
    THEN LET ij == calculate_ij_offsets(current_pos, << move.arc_center_x, move.arc_center_y >>)
         IN  generate_arc_move(InlineDirection(move, current_pos),
                               FormatCoordinate(move.x), FormatCoordinate(move.y),
                               FormatCoordinate(ij[1]), FormatCoordinate(ij[2]),
                               Fmt(feed), None, "profile")
    ELSE generate_linear_move(Fmt(move.x), Fmt(move.y), None, Fmt(feed), "profile")

\* the feed of one profile move of a pass
MoveFeed(settings, config, params, move, pass_num) ==
    IF config.apply_corner_slowdown /\ RLt(move.corner_feed_factor, One)
    THEN AdjustedFeed(settings, params.feed_rate, pass_num,
                      move.move_type = "arc", move.corner_feed_factor)
    ELSE IF move.move_type = "arc"
    THEN AdjustedFeed(settings, params.feed_rate, pass_num, TRUE, One)
    ELSE AdjustedFeed(settings, params.feed_rate, pass_num, FALSE, One)

\* the lead-in of the configuration is a helix
Helical(config) == config.lead_in_type = "helical"

HelixStart(config) ==
    calculate_helix_start_point(config.helix_center[1], config.helix_center[2],
                                config.helix_radius, config.approach_angle)

\* the move from the end of the helix onto the profile
HelixTransition(config, current_feed) ==
    IF config.profile_transition = "arc"
    THEN LET target == config.profile_transition_target
             profile_radius == Hypot(RSub(target[1], config.helix_center[1]),
                                     RSub(target[2], config.helix_center[2]))
         IN  IF RLt(FromInt(10), RAbs(RSub(config.helix_radius, profile_radius)))
             THEN generate_helical_to_profile_circle(config.helix_center[1],
                      config.helix_center[2], config.helix_radius, profile_radius,
                      current_feed, config.approach_angle)
             ELSE <<>>
    ELSE IF config.profile_transition = "linear"
    THEN generate_helical_to_profile_hexagon(HelixStart(config)[1], HelixStart(config)[2],
             config.profile_transition_target[1], config.profile_transition_target[2],
             current_feed, config.approach_angle)
    ELSE <<>>

\* the helical descent of one pass and the move onto the profile
HelicalEntry(config, params, p, current_feed) ==
    adjust_helix_depth(
        generate_helical_lead_in(config.helix_center[1], config.helix_center[2],
                                 config.helix_radius, p.per_pass, config.helix_pitch,
                                 params.plunge_rate, config.approach_angle,
                                 Some(current_feed)),
        p.per_pass, p.cumulative)
    \o HelixTransition(config, current_feed)

\* the lines of one pass: descent, profile moves, lead-out
PassLines(settings, config, params, p) ==
    LET current_feed == AdjustedFeed(settings, params.feed_rate, p.pass_num, FALSE, One)
        ramp == config.lead_in_type = "ramp" /\ config.lead_in_point # None
        descent ==
            IF Helical(config)
            THEN HelicalEntry(config, params, p, current_feed)
            ELSE IF ramp
            THEN << generate_linear_move(Fmt(config.profile_start[1]),
                                         Fmt(config.profile_start[2]),
                                         Fmt(RNeg(p.cumulative)), Fmt(params.plunge_rate),
                                         "descent") >>
            ELSE << generate_linear_move(None, None, Fmt(RNeg(p.cumulative)),
                                         Fmt(params.plunge_rate), "descent") >>
        PosBefore(k) == IF k = 1 THEN config.profile_start
                        ELSE << config.moves[k - 1].x, config.moves[k - 1].y >>
        profile == [ k \in 1..Len(config.moves) |->
                       generate_move_from_path(config.moves[k], PosBefore(k),
                           MoveFeed(settings, config, params, config.moves[k], p.pass_num)) ]
        lead_out == IF config.is_closed /\ Helical(config)
                    THEN << generate_linear_move(Fmt(HelixStart(config)[1]),
                                                 Fmt(HelixStart(config)[2]),
                                                 None, Fmt(current_feed), "leadout") >>
                    ELSE IF config.is_closed /\ ramp
                    THEN << generate_linear_move(Fmt(config.lead_in_point[1][1]),
                                                 Fmt(config.lead_in_point[1][2]),
                                                 None, Fmt(current_feed), "leadout") >>
                    ELSE <<>>
    IN  Annotate(descent \o profile \o lead_out, "pass", p.pass_num)

\* the concatenation of a sequence of sequences, by halving
RECURSIVE ConcatRange(_, _, _)
ConcatRange(seqs, lo, hi) ==
    IF lo > hi THEN <<>>
    ELSE IF lo = hi THEN seqs[lo]
    ELSE LET mid == (lo + hi) \div 2
         IN  ConcatRange(seqs, lo, mid) \o ConcatRange(seqs, mid + 1, hi)

ConcatAll(seqs) == ConcatRange(seqs, 1, Len(seqs))

generate_path_cut(settings, material_depth_arg, config, params) ==
    LET cut_pass_depth == OrDefault(params.pass_depth, DefaultPassDepth)
        ramp == config.lead_in_type = "ramp" /\ config.lead_in_point # None
        start == IF Helical(config) THEN HelixStart(config)
                 ELSE IF ramp THEN config.lead_in_point[1] ELSE config.profile_start
        plan == iter_passes(material_depth_arg, cut_pass_depth)
    IN  << generate_rapid_move(Fmt(start[1]), Fmt(start[2]), Fmt(settings.travel_height),
                               "position"),
           generate_rapid_move(None, None, Some(0), "surface") >>
        \o ConcatAll([ k \in 1..Len(plan) |-> PassLines(settings, config, params, plan[k]) ])
        \o << generate_rapid_move(None, None, Fmt(settings.safety_height), "retract") >>

(***************************************************************************)
(* src/src/gcode_generator.py: the generator object.  Its mutable state is *)
(* gs = [subroutines, used_subroutine_numbers, warnings]; subroutines is a *)
(* function from file number to body.  Every generate_..._gcode returns    *)
(* its main-program lines and the state it leaves.  The lead-in types are  *)
(* 'none', 'ramp' and 'helical'; the helical entry of a subroutine,        *)
(* generate_helical_entry, is not among the sources, and the inputs ask    *)
(* for a helix only where the cut is emitted inline or the shape is too    *)
(* small for one.                                                          *)
(***************************************************************************)
NewGeneratorState ==
    [subroutines |-> <<>>, used_subroutine_numbers |-> <<>>, warnings |-> <<>>]

\* self.subroutines[sub_num] = sub_content, after the number was appended
StoreSubroutine(gs, sub_num, sub_content) ==
    [gs EXCEPT !.used_subroutine_numbers = Append(@, sub_num),
               !.subroutines = (sub_num :> sub_content) @@ @]

\* the fall back to a ramp, were it made without a warning
EffectiveLeadInUnwarned(lead_in_type, helix_radius, shape_desc) ==
    IF lead_in_type = "helical" /\ helix_radius = None
    THEN [lead_in_type |-> "ramp", helix_radius |-> None, warnings |-> <<>>]
    ELSE [lead_in_type |-> lead_in_type, helix_radius |-> helix_radius, warnings |-> <<>>]

\* _determine_effective_lead_in: the type and the helix radius to use, and
\* the warning it appends; helix_radius is None or Some(radius), shape_desc
\* stands for the text that names the shape
determine_effective_lead_in(lead_in_type, helix_radius, shape_desc) ==
    IF lead_in_type = "helical" /\ helix_radius = None
    THEN [lead_in_type |-> "ramp", helix_radius |-> None,
          warnings |-> << [kind |-> "too_small_for_helical", shape |-> shape_desc] >>]
    ELSE [lead_in_type |-> lead_in_type, helix_radius |-> helix_radius, warnings |-> <<>>]

\* the LeadInConfig of a helical entry laid over the configuration of a shape
\* whose entry is a plunge
HelicalLeadIn(config, center, helix_radius, helix_pitch, profile_transition) ==
    [lead_in_type |-> "helical", helix_center |-> center, helix_radius |-> helix_radius,
     helix_pitch |-> helix_pitch, profile_transition |-> profile_transition,
     profile_transition_target |-> config.profile_start] @@ config

\* the configuration with the approach angle of its lead-in and the warnings
\* that were appended while it was built
Configured(config, approach_angle, warnings) ==
    [approach_angle |-> approach_angle, warnings |-> warnings] @@ config

\* the configuration once cut radius, entry and profile start are known
CirclePathConfig(circle, cut_radius, lead_in_distance, ramp, approach_angle, profile_start) ==
    [moves |-> << [PathMove(profile_start[1], profile_start[2], "full_circle", One)
                     EXCEPT !.i_offset = RMul(RNeg(cut_radius),
                                              FromInt(CosUser(approach_angle))),
                            !.j_offset = RMul(RNeg(cut_radius),
                                              FromInt(SinUser(approach_angle)))] >>,
     profile_start |-> profile_start,
     lead_in_type |-> IF ramp THEN "ramp" ELSE "none",
     lead_in_point |-> IF ramp
                       THEN Some(calculate_circle_lead_in_point(circle.center_x,
                                     circle.center_y, cut_radius, lead_in_distance,
                                     approach_angle))
                       ELSE None,
     is_closed |-> TRUE,
     apply_corner_slowdown |-> FALSE]

CircleProfile(circle, cut_radius, lead_in_distance, ramp, approach_angle) ==
    CirclePathConfig(circle, cut_radius, lead_in_distance, ramp, approach_angle,
        << RAdd(circle.center_x, RMul(cut_radius, FromInt(CosUser(approach_angle)))),
           RAdd(circle.center_y, RMul(cut_radius, FromInt(SinUser(approach_angle)))) >>)

\* the configuration once the effective lead-in is known
CircleLeadIn(settings, lead_in_distance, circle, cut_radius, approach_angle, effective) ==
    IF effective.lead_in_type = "helical" /\ effective.helix_radius # None
    THEN Configured(
             HelicalLeadIn(CircleProfile(circle, cut_radius, lead_in_distance, FALSE,
                                         approach_angle),
                           << circle.center_x, circle.center_y >>,
                           effective.helix_radius[1], settings.helix_pitch, "arc"),
             approach_angle, effective.warnings)
    ELSE Configured(
             CircleProfile(circle, cut_radius, lead_in_distance,
                           effective.lead_in_type = "ramp" /\ RLt(Zero, lead_in_distance),
                           approach_angle),
             approach_angle, effective.warnings)

CircleEntry(settings, lead_in_distance, circle, params, cut_radius, lead_in_type, approach_angle) ==
    CircleLeadIn(settings, lead_in_distance, circle, cut_radius, approach_angle,
        determine_effective_lead_in(lead_in_type,
            IF lead_in_type = "helical"
            THEN calculate_helix_radius_for_circle(cut_radius, params.tool_diameter)
            ELSE None,
            << "Circle", circle.diameter >>))

circle_to_path_config(settings, lead_in_distance, circle, params) ==
    LET manual == circle.lead_in_mode = "manual"
    IN  CircleEntry(settings, lead_in_distance, circle, params,
            calculate_cut_radius(circle.diameter, params.tool_diameter, circle.compensation),
            IF manual THEN circle.lead_in_type ELSE settings.circle_lead_in_type,
            IF manual THEN circle.lead_in_approach_angle ELSE 90)

\* the configuration once the vertices are known: the moves go to the
\* vertices 2..6 and back to vertex 1
HexagonPathConfig(hexagon, vertices, lead_in_distance, ramp, manual) ==
    [moves |-> [ i \in 1..6 |-> PathMove(vertices[(i % 6) + 1][1], vertices[(i % 6) + 1][2],
                                         "linear", One) ],
     profile_start |-> vertices[1],
     lead_in_type |-> IF ramp THEN "ramp" ELSE "none",
     lead_in_point |-> IF ramp
                       THEN Some(calculate_hexagon_lead_in_point(vertices, lead_in_distance,
                                     << hexagon.center_x, hexagon.center_y >>,
                                     IF manual THEN Some(hexagon.lead_in_approach_angle)
                                     ELSE None))
                       ELSE None,
     is_closed |-> TRUE,
     apply_corner_slowdown |-> FALSE]

\* the configuration once the vertices and the effective lead-in are known
HexagonLeadInConfig(settings, lead_in_distance, hexagon, vertices, manual, approach_angle, effective) ==
    IF effective.lead_in_type = "helical" /\ effective.helix_radius # None
    THEN Configured(
             HelicalLeadIn(HexagonPathConfig(hexagon, vertices, lead_in_distance, FALSE, manual),
                           << hexagon.center_x, hexagon.center_y >>,
                           effective.helix_radius[1], settings.helix_pitch, "linear"),
             approach_angle, effective.warnings)
    ELSE Configured(
             HexagonPathConfig(hexagon, vertices, lead_in_distance,
                               effective.lead_in_type = "ramp" /\ RLt(Zero, lead_in_distance),
                               manual),
             approach_angle, effective.warnings)

hexagon_to_path_config(settings, lead_in_distance, hexagon, params) ==
    LET manual == hexagon.lead_in_mode = "manual"
        lead_in_type == IF manual THEN hexagon.lead_in_type ELSE settings.hexagon_lead_in_type
    IN  HexagonLeadInConfig(settings, lead_in_distance, hexagon,
            calculate_compensated_vertices(hexagon.center_x, hexagon.center_y,
                hexagon.flat_to_flat, params.tool_diameter, hexagon.compensation),
            manual,
            IF manual THEN hexagon.lead_in_approach_angle ELSE 90,
            determine_effective_lead_in(lead_in_type,
                IF lead_in_type = "helical"
                THEN calculate_helix_radius_for_hexagon(hexagon.flat_to_flat,
                         params.tool_diameter, hexagon.compensation)
                ELSE None,
                << "Hexagon", hexagon.flat_to_flat, hexagon.center_x, hexagon.center_y >>))

\* operation is the line cut the path belongs to (compensation 'none')
\* the PathMove to a point of the processed path
PathMoveTo(pt, corner_feed_factor) ==
    IF pt.line_type = "arc"
    THEN [PathMove(pt.x, pt.y, "arc", corner_feed_factor)
            EXCEPT !.arc_center_x = pt.arc_center_x,
                   !.arc_center_y = pt.arc_center_y,
                   !.arc_direction = pt.arc_direction]
    ELSE PathMove(pt.x, pt.y, "linear", corner_feed_factor)

LinePathConfig(settings, lead_in_distance, path, processed_path, use_lead_in, approach_angle) ==
    [moves |-> [ k \in 1..(Len(path) - 1) |->
                   PathMoveTo(processed_path[k + 1].point,
                              processed_path[k + 1].corner_feed_factor) ],
     profile_start |-> << path[1].x, path[1].y >>,
     lead_in_type |-> IF use_lead_in THEN "ramp" ELSE "none",
     lead_in_point |-> IF use_lead_in
                       THEN Some(calculate_line_lead_in_point(path, lead_in_distance,
                                                              approach_angle))
                       ELSE None,
     is_closed |-> is_closed_path(path),
     apply_corner_slowdown |-> settings.corner_slowdown_enabled]

line_to_path_config(settings, lead_in_distance, path, params, operation) ==
    LET manual == operation.lead_in_mode = "manual"
        lead_in_type == IF manual THEN operation.lead_in_type ELSE settings.line_lead_in_type
    IN  LinePathConfig(settings, lead_in_distance, path,
            IF settings.corner_slowdown_enabled
            THEN generate_corner_slowdown_points(path, settings.corner_feed_factor)
            ELSE WithoutCornerFactors(path),
            lead_in_type = "ramp" /\ RLt(Zero, lead_in_distance),
            IF manual THEN Some(operation.lead_in_approach_angle) ELSE None)

(***************************************************************************)
(* Drilling.  drill_points are the (x, y) pairs handed to the generator;   *)
(* operations are the drill operations as the project stores them:         *)
(* [type |-> "single", x, y], [type |-> "pattern_linear", start_x,         *)
(* start_y, axis, spacing, count] or [type |-> "pattern_grid", start_x,    *)
(* start_y, x_spacing, y_spacing, x_count, y_count].                       *)
(***************************************************************************)
\* the peck cycle at the current XY position
PeckCycle(settings, params, peck_list) ==
    ConcatAll([ k \in 1..Len(peck_list) |->
        << generate_linear_move(None, None, Fmt(RNeg(peck_list[k])),
                                Fmt(params.plunge_rate), "peck"),
           generate_rapid_move(None, None, Fmt(settings.safety_height), "peck_retract") >>
        \o (IF RLt(peck_list[k], peck_list[Len(peck_list)])
            THEN << generate_rapid_move(None, None, Some(0), "surface") >>
            ELSE <<>>) ])

generate_drill_inline(settings, points, params, peck_list) ==
    ConcatAll([ k \in 1..Len(points) |->
        Tag(<< generate_rapid_move(Fmt(points[k][1]), Fmt(points[k][2]),
                                   Fmt(settings.travel_height), "position"),
               generate_rapid_move(None, None, Some(0), "surface") >>
            \o PeckCycle(settings, params, peck_list), "drill", k) ])

\* a linear pattern: the subroutine is stored, the main program positions
\* at the start and calls it count times
PatternLinear(settings, gs, op, sub_num, sub_content) ==
    [lines |-> << generate_rapid_move(Fmt(op.start_x), Fmt(op.start_y),
                                      Fmt(settings.travel_height), "position"),
                  generate_subroutine_call(sub_num, op.count) >>,
     gs |-> StoreSubroutine(gs, sub_num, sub_content)]

\* a grid walked by columns: x_count calls of L = y_count
PatternGridByColumns(settings, gs, op, sub_num, sub_content) ==
    [lines |-> ConcatAll([ c \in 1..op.x_count |->
                  << generate_rapid_move(
                         Fmt(RAdd(op.start_x, RMul(FromInt(c - 1), op.x_spacing))),
                         Fmt(op.start_y), Fmt(settings.travel_height), "position"),
                     generate_subroutine_call(sub_num, op.y_count) >> ]),
     gs |-> StoreSubroutine(gs, sub_num, sub_content)]

\* a grid pattern: one subroutine for a row, called once for every row
PatternGrid(settings, gs, op, sub_num, sub_content) ==
    [lines |-> ConcatAll([ r \in 1..op.y_count |->
                  << generate_rapid_move(Fmt(op.start_x),
                         Fmt(RAdd(op.start_y, RMul(FromInt(r - 1), op.y_spacing))),
                         Fmt(settings.travel_height), "position"),
                     generate_subroutine_call(sub_num, op.x_count) >> ]),
     gs |-> StoreSubroutine(gs, sub_num, sub_content)]

\* the lines and the state after one operation of _generate_drill_with_subroutines
DrillOperation(settings, gs, params, peck_list, op) ==
    IF op.type = "single"
    THEN [lines |-> << generate_rapid_move(Fmt(op.x), Fmt(op.y),
                                           Fmt(settings.travel_height), "position"),
                       generate_rapid_move(None, None, Some(0), "surface") >>
                    \o PeckCycle(settings, params, peck_list),
          gs |-> gs]
    ELSE IF op.type = "pattern_linear"
    THEN PatternLinear(settings, gs, op,
             get_next_subroutine_number("drill", gs.used_subroutine_numbers),
             generate_peck_drill_subroutine(peck_list, params.plunge_rate,
                 settings.travel_height, op.axis, op.spacing))
    ELSE PatternGrid(settings, gs, op,
             get_next_subroutine_number("drill", gs.used_subroutine_numbers),
             generate_peck_drill_subroutine(peck_list, params.plunge_rate,
                 settings.travel_height, "x", op.x_spacing))

\* the lines so far followed by the lines of what comes next
Then(sofar, next) == [lines |-> sofar.lines \o next.lines, gs |-> next.gs]

\* a loop "for op in ops: lines.extend(...)" that threads the generator state;
\* Step(gs, op, index) gives [lines, gs] for one element.  The elements lo..hi
\* are processed in order: the second half starts from the state the first
\* half leaves.
RECURSIVE LoopRange(_, _, _, _, _)
LoopRange(Step(_, _, _), gs, ops, lo, hi) ==
    IF lo > hi THEN [lines |-> <<>>, gs |-> gs]
    ELSE IF lo = hi THEN Step(gs, ops[lo], lo)
    ELSE LET mid == (lo + hi) \div 2
             first == LoopRange(Step, gs, ops, lo, mid)
             rest == LoopRange(Step, first.gs, ops, mid + 1, hi)
         IN  [lines |-> first.lines \o rest.lines, gs |-> rest.gs]

Loop(Step(_, _, _), gs, ops, k) == LoopRange(Step, gs, ops, k, Len(ops))

\* the lines of one operation with the annotations kind and op
Tagged(done, kind, k) == [lines |-> Tag(done.lines, kind, k), gs |-> done.gs]

generate_drill_with_subroutines(settings, gs, params, peck_list, operations) ==
    LET Step(g, op, k) == Tagged(DrillOperation(settings, g, params, peck_list, op),
                                 "drill", k)
    IN  Loop(Step, gs, operations, 1)

\* operations is None when the caller passed no original operations
generate_drill_gcode(settings, material_depth_arg, gs, drill_points, params, operations) ==
    IF drill_points = <<>> THEN [lines |-> <<>>, gs |-> gs]
    ELSE LET pecking_depth == OrDefault(params.pecking_depth, DefaultPeckingDepth)
             peck_list == calculate_pass_depths(material_depth_arg, pecking_depth)
             use_subroutines == /\ settings.supports_subroutines
                                /\ operations # None
                                /\ operations[1] # <<>>
                                /\ Len(drill_points) > 1
         IN  IF use_subroutines
             THEN generate_drill_with_subroutines(settings, gs, params, peck_list, operations[1])
             ELSE [lines |-> generate_drill_inline(settings, drill_points, params, peck_list),
                   gs |-> gs]

(***************************************************************************)
(* Circular, hexagonal and line cuts.  Lines of the main program that      *)
(* belong to one operation carry the annotations kind and op (the index of *)
(* the operation in the list handed to the generator).                     *)
(***************************************************************************)
\* indices of the auto-mode circles, in order
AutoIndices(circles) ==
    SelectSeq([ k \in 1..Len(circles) |-> k ], LAMBDA k : circles[k].lead_in_mode # "manual")
ManualIndices(circles) ==
    SelectSeq([ k \in 1..Len(circles) |-> k ], LAMBDA k : circles[k].lead_in_mode = "manual")

GroupKey(circle) ==
    << circle.diameter, Get(circle, "compensation", "interior"), Get(circle, "hold_time", Zero) >>

\* the group keys in the order in which the dictionary first saw them
GroupKeys(circles, indices) ==
    LET FirstOfKey(j) == \A i \in 1..(j - 1) :
                            GroupKey(circles[indices[i]]) # GroupKey(circles[indices[j]])
        firsts == SelectSeq([ j \in 1..Len(indices) |-> j ], FirstOfKey)
    IN  [ n \in 1..Len(firsts) |-> GroupKey(circles[indices[firsts[n]]]) ]

generate_circle_inline(settings, material_depth_arg, lead_in_distance, circle, params) ==
    generate_path_cut(settings, material_depth_arg,
                      circle_to_path_config(settings, lead_in_distance, circle, params), params)

\* the lines of a circle cut inline, and the generator state with the
\* warnings of its configuration
CircleInline(settings, material_depth_arg, lead_in_distance, gs, circle, params, k) ==
    [lines |-> Tag(generate_circle_inline(settings, material_depth_arg, lead_in_distance,
                                          circle, params), "circular", k),
     gs |-> [gs EXCEPT !.warnings =
                 @ \o circle_to_path_config(settings, lead_in_distance, circle,
                                            params).warnings]]

\* the effective lead-in of a group of auto-mode circles
GroupLeadIn(settings, params, key) ==
    determine_effective_lead_in(settings.circle_lead_in_type,
        IF settings.circle_lead_in_type = "helical"
        THEN calculate_helix_radius_for_circle(
                 calculate_cut_radius(key[1], params.tool_diameter, key[2]),
                 params.tool_diameter)
        ELSE None,
        << "Circle", key[1] >>)

\* one group of auto-mode circles: its subroutine and the calls of its members
CircleGroup(settings, material_depth_arg, lead_in_distance, gs, circles, indices, params, key) ==
    LET cut_pass_depth == OrDefault(params.pass_depth, DefaultPassDepth)
        num_passes == calculate_num_passes(material_depth_arg, cut_pass_depth)
        actual_pass_depth == RDivInt(material_depth_arg, num_passes)
        cut_radius == calculate_cut_radius(key[1], params.tool_diameter, key[2])
        effective == GroupLeadIn(settings, params, key)
        effective_lead_in_type == effective.lead_in_type
        sub_num == get_next_subroutine_number("circular", gs.used_subroutine_numbers)
        sub_content == generate_circle_pass_subroutine(cut_radius, actual_pass_depth,
                           params.plunge_rate, params.feed_rate,
                           IF effective_lead_in_type = "ramp" THEN Some(lead_in_distance)
                           ELSE None,
                           effective_lead_in_type, 90, key[3], One)
        members == SelectSeq(indices, LAMBDA k : GroupKey(circles[k]) = key)
        Start(circle) ==
            IF effective_lead_in_type = "helical" /\ effective.helix_radius # None
            THEN calculate_helix_start_point(circle.center_x, circle.center_y,
                                             effective.helix_radius[1], 90)
            ELSE IF effective_lead_in_type = "ramp" /\ lead_in_distance[1] # 0
            THEN calculate_circle_lead_in_point(circle.center_x, circle.center_y,
                                                cut_radius, lead_in_distance, 90)
            ELSE << RAdd(circle.center_x, cut_radius), circle.center_y >>
        Calls(k) ==
            Tag(<< generate_rapid_move(Fmt(Start(circles[k])[1]), Fmt(Start(circles[k])[2]),
                                       Fmt(settings.travel_height), "position"),
                   generate_rapid_move(None, None, Some(0), "surface"),
                   generate_subroutine_call(sub_num, num_passes),
                   generate_rapid_move(None, None, Fmt(settings.safety_height), "retract") >>,
                "circular", k)
    IN  [lines |-> ConcatAll([ m \in 1..Len(members) |-> Calls(members[m]) ]),
         gs |-> StoreSubroutine([gs EXCEPT !.warnings = @ \o effective.warnings],
                                sub_num, sub_content)]

\* the auto-mode circles, after the manual-mode ones left the lines and the
\* state sofar
AutoCircles(settings, material_depth_arg, lead_in_distance, circles, params, sofar) ==
    LET auto_circles == AutoIndices(circles)
        Inline(g, k, n) == CircleInline(settings, material_depth_arg, lead_in_distance, g,
                                        circles[k], params, k)
        Step(g, key, n) == CircleGroup(settings, material_depth_arg, lead_in_distance, g,
                                       circles, auto_circles, params, key)
    IN  Then(sofar,
             IF settings.supports_subroutines /\ auto_circles # <<>>
             THEN Loop(Step, sofar.gs, GroupKeys(circles, auto_circles), 1)
             ELSE Loop(Inline, sofar.gs, auto_circles, 1))

generate_circular_gcode(settings, material_depth_arg, lead_in_distance, gs, circles, params) ==
    IF circles = <<>> THEN [lines |-> <<>>, gs |-> gs]
    ELSE
    LET Inline(g, k, n) == CircleInline(settings, material_depth_arg, lead_in_distance, g,
                                        circles[k], params, k)
    IN  \* manual-mode circles first, each inline; then the auto-mode circles
        AutoCircles(settings, material_depth_arg, lead_in_distance, circles, params,
                    Loop(Inline, gs, ManualIndices(circles), 1))

CutCall(settings, start, sub_num, num_passes, kind, op) ==
    Tag(<< generate_rapid_move(Fmt(start[1]), Fmt(start[2]),
                               Fmt(settings.travel_height), "position"),
           generate_rapid_move(None, None, Some(0), "surface"),
           generate_subroutine_call(sub_num, num_passes),
           generate_rapid_move(None, None, Fmt(settings.safety_height), "retract") >>,
        kind, op)

\* the subroutine and the call once passes, vertices and lead-in point are known
HexagonCall(settings, gs, hexagon, params, k, num_passes, actual_pass_depth, vertices, effective_lead_in_type, lead_in_point, sub_num) ==
    [lines |-> CutCall(settings,
                       IF effective_lead_in_type = "ramp" /\ lead_in_point # None
                       THEN lead_in_point[1] ELSE vertices[1],
                       sub_num, num_passes, "hexagonal", k),
     gs |-> StoreSubroutine(gs, sub_num,
                generate_hexagon_pass_subroutine(vertices, actual_pass_depth,
                    params.plunge_rate, params.feed_rate, lead_in_point,
                    effective_lead_in_type, Get(hexagon, "hold_time", Zero)))]

HexagonLeadIn(settings, lead_in_distance, gs, hexagon, params, k, num_passes, actual_pass_depth, vertices, manual, effective_lead_in_type) ==
    HexagonCall(settings, gs, hexagon, params, k, num_passes, actual_pass_depth, vertices,
        effective_lead_in_type,
        IF effective_lead_in_type = "ramp" /\ RLt(Zero, lead_in_distance)
        THEN Some(calculate_hexagon_lead_in_point(vertices, lead_in_distance,
                      << hexagon.center_x, hexagon.center_y >>,
                      IF manual THEN Some(hexagon.lead_in_approach_angle) ELSE None))
        ELSE None,
        get_next_subroutine_number("hexagonal", gs.used_subroutine_numbers))

\* the subroutine and the call once the effective lead-in is known; its
\* warning is appended to the state
HexagonEffective(settings, material_depth_arg, lead_in_distance, gs, hexagon, params, k, num_passes, effective) ==
    HexagonLeadIn(settings, lead_in_distance,
        [gs EXCEPT !.warnings = @ \o effective.warnings],
        hexagon, params, k, num_passes,
        RDivInt(material_depth_arg, num_passes),
        calculate_compensated_vertices(hexagon.center_x, hexagon.center_y,
            hexagon.flat_to_flat, params.tool_diameter, hexagon.compensation),
        hexagon.lead_in_mode = "manual",
        effective.lead_in_type)

HexagonPasses(settings, material_depth_arg, lead_in_distance, gs, hexagon, params, k, num_passes) ==
    LET lead_in_type == IF hexagon.lead_in_mode = "manual" THEN hexagon.lead_in_type
                        ELSE settings.hexagon_lead_in_type
    IN  HexagonEffective(settings, material_depth_arg, lead_in_distance, gs, hexagon, params,
            k, num_passes,
            determine_effective_lead_in(lead_in_type,
                IF lead_in_type = "helical"
                THEN calculate_helix_radius_for_hexagon(hexagon.flat_to_flat,
                         params.tool_diameter, hexagon.compensation)
                ELSE None,
                << "Hexagon", hexagon.flat_to_flat, hexagon.center_x, hexagon.center_y >>))

HexagonWithSubroutine(settings, material_depth_arg, lead_in_distance, gs, hexagon, params, k) ==
    HexagonPasses(settings, material_depth_arg, lead_in_distance, gs, hexagon, params, k,
        calculate_num_passes(material_depth_arg,
                             OrDefault(params.pass_depth, DefaultPassDepth)))

generate_hexagonal_gcode(settings, material_depth_arg, lead_in_distance, gs, hexagons, params) ==
    IF hexagons = <<>> THEN [lines |-> <<>>, gs |-> gs]
    ELSE IF settings.supports_subroutines
    THEN LET Step(g, hexagon, k) == HexagonWithSubroutine(settings, material_depth_arg,
                                        lead_in_distance, g, hexagon, params, k)
         IN  Loop(Step, gs, hexagons, 1)
    ELSE LET Inline(g, hexagon, k) ==
                 [lines |-> Tag(generate_path_cut(settings, material_depth_arg,
                                    hexagon_to_path_config(settings, lead_in_distance,
                                                           hexagon, params), params),
                                "hexagonal", k),
                  gs |-> [g EXCEPT !.warnings =
                              @ \o hexagon_to_path_config(settings, lead_in_distance,
                                                          hexagon, params).warnings]]
         IN  Loop(Inline, gs, hexagons, 1)

\* a line cut is [points, compensation, hold_time, lead_in_mode, lead_in_type,
\* lead_in_approach_angle]; the compensation modelled is 'none'
\* the subroutine and the call once passes and lead-in point are known;
\* warned is the generator state with the arc warnings of this path added
LineCall(settings, warned, line_cut, params, k, num_passes, actual_pass_depth, use_lead_in, lead_in_point, sub_num) ==
    [lines |-> CutCall(settings,
                       IF use_lead_in THEN lead_in_point[1]
                       ELSE << line_cut.points[1].x, line_cut.points[1].y >>,
                       sub_num, num_passes, "line", k),
     gs |-> StoreSubroutine(warned, sub_num,
                generate_line_path_subroutine(line_cut.points, actual_pass_depth,
                    params.plunge_rate, params.feed_rate, lead_in_point,
                    Get(line_cut, "hold_time", Zero)))]

LineWithSubroutine(settings, material_depth_arg, lead_in_distance, warned, line_cut, params, k, num_passes, use_lead_in) ==
    LineCall(settings, warned, line_cut, params, k, num_passes,
        RDivInt(material_depth_arg, num_passes),
        use_lead_in,
        IF use_lead_in
        THEN Some(calculate_line_lead_in_point(line_cut.points, lead_in_distance,
                      IF line_cut.lead_in_mode = "manual"
                      THEN Some(line_cut.lead_in_approach_angle) ELSE None))
        ELSE None,
        get_next_subroutine_number("line", warned.used_subroutine_numbers))

LineValidated(settings, material_depth_arg, lead_in_distance, warned, line_cut, params, k) ==
    IF settings.supports_subroutines
    THEN LineWithSubroutine(settings, material_depth_arg, lead_in_distance, warned, line_cut,
             params, k,
             calculate_num_passes(material_depth_arg,
                                  OrDefault(params.pass_depth, DefaultPassDepth)),
             /\ RLt(Zero, lead_in_distance)
             /\ IF line_cut.lead_in_mode = "manual" THEN line_cut.lead_in_type = "ramp"
                ELSE settings.line_lead_in_type = "ramp")
    ELSE [lines |-> Tag(generate_path_cut(settings, material_depth_arg,
                            line_to_path_config(settings, lead_in_distance, line_cut.points,
                                                params, line_cut), params),
                        "line", k),
          gs |-> warned]

LineCut(settings, material_depth_arg, lead_in_distance, gs, line_cut, params, k) ==
    IF line_cut.points = <<>> THEN [lines |-> <<>>, gs |-> gs]
    ELSE LineValidated(settings, material_depth_arg, lead_in_distance,
             [gs EXCEPT !.warnings = @ \o Annotate(validate_arc_geometry(line_cut.points),
                                                   "op", k)],
             line_cut, params, k)

generate_line_gcode(settings, material_depth_arg, lead_in_distance, gs, line_cuts, params) ==
    LET Step(g, line_cut, k) == LineCut(settings, material_depth_arg, lead_in_distance,
                                        g, line_cut, params, k)
    IN  Loop(Step, gs, line_cuts, 1)

(***************************************************************************)
(* WebGCodeGenerator.generate.  expanded_ops is [drill_points,             *)
(* circular_cuts, hexagonal_cuts, line_cuts]; drill_params and cut_params  *)
(* are None or Some(ToolParams); original_operations is None or            *)
(* Some([drill_holes |-> ...]).  The value is the GenerationResult         *)
(* [main_gcode, subroutines, warnings] as it reads when the call returns,  *)
(* and the state the generator object is left in.                          *)
(***************************************************************************)
DefaultSpindleSpeed == 1000

GenerateDrill(settings, material_depth_arg, expanded_ops, drill_params, original_operations, sofar) ==
    Then(sofar,
         IF drill_params # None /\ expanded_ops.drill_points # <<>>
         THEN generate_drill_gcode(settings, material_depth_arg, sofar.gs,
                  expanded_ops.drill_points, drill_params[1],
                  IF original_operations # None
                  THEN Some(original_operations[1].drill_holes) ELSE None)
         ELSE [lines |-> <<>>, gs |-> sofar.gs])

GenerateCircular(settings, material_depth_arg, lead_in_distance, expanded_ops, cut_params, sofar) ==
    Then(sofar,
         IF cut_params # None /\ expanded_ops.circular_cuts # <<>>
         THEN generate_circular_gcode(settings, material_depth_arg, lead_in_distance,
                                      sofar.gs, expanded_ops.circular_cuts, cut_params[1])
         ELSE [lines |-> <<>>, gs |-> sofar.gs])

GenerateHexagonal(settings, material_depth_arg, lead_in_distance, expanded_ops, cut_params, sofar) ==
    Then(sofar,
         IF cut_params # None /\ expanded_ops.hexagonal_cuts # <<>>
         THEN generate_hexagonal_gcode(settings, material_depth_arg, lead_in_distance,
                                       sofar.gs, expanded_ops.hexagonal_cuts, cut_params[1])
         ELSE [lines |-> <<>>, gs |-> sofar.gs])

GenerateLine(settings, material_depth_arg, lead_in_distance, expanded_ops, cut_params, sofar) ==
    Then(sofar,
         IF cut_params # None /\ expanded_ops.line_cuts # <<>>
         THEN generate_line_gcode(settings, material_depth_arg, lead_in_distance,
                                  sofar.gs, expanded_ops.line_cuts, cut_params[1])
         ELSE [lines |-> <<>>, gs |-> sofar.gs])

GenerationResult(settings, sofar) ==
    [result |-> [main_gcode |-> sofar.lines \o generate_footer(settings.safety_height),
                 subroutines |-> sofar.gs.subroutines,
                 warnings |-> sofar.gs.warnings],
     gs |-> sofar.gs]

GenerateCuts(settings, material_depth_arg, lead_in_distance, expanded_ops, cut_params, sofar) ==
    GenerateLine(settings, material_depth_arg, lead_in_distance, expanded_ops, cut_params,
        GenerateHexagonal(settings, material_depth_arg, lead_in_distance, expanded_ops,
            cut_params,
            GenerateCircular(settings, material_depth_arg, lead_in_distance, expanded_ops,
                             cut_params, sofar)))

generate(settings, material_depth_arg, gs, expanded_ops, drill_params, cut_params, original_operations) ==
    LET spindle_speed == IF drill_params # None THEN drill_params[1].spindle_speed
                         ELSE IF cut_params # None THEN cut_params[1].spindle_speed
                         ELSE DefaultSpindleSpeed
        header == generate_header(spindle_speed, settings.spindle_warmup_seconds,
                                  settings.safety_height)
    IN  GenerationResult(settings,
            GenerateCuts(settings, material_depth_arg,
                IF cut_params # None /\ cut_params[1].pass_depth[1] # 0
                THEN calculate_lead_in_distance(settings.ramp_angle, cut_params[1].pass_depth)
                ELSE FromInt(DefaultLeadInDistance),
                expanded_ops, cut_params,
                GenerateDrill(settings, material_depth_arg, expanded_ops, drill_params,
                              original_operations, [lines |-> header, gs |-> gs])))

(***************************************************************************)
(* src/src/pattern_expander.py and src/src/tube_void_checker.py, for drill *)
(* operations, and GCodeService.prepare_operations                         *)
(* (src/web/services/gcode_service.py).                                    *)
(***************************************************************************)
\* str.lower() of an axis letter
Lower(axis) == IF axis = "X" THEN "x" ELSE IF axis = "Y" THEN "y" ELSE axis

expand_linear_pattern(start_x, start_y, axis, spacing, count) ==
    [ i \in 1..count |->
        IF Lower(axis) = "x" THEN << RAdd(start_x, RMul(FromInt(i - 1), spacing)), start_y >>
        ELSE << start_x, RAdd(start_y, RMul(FromInt(i - 1), spacing)) >> ]

\* the inner loop runs over the columns, the outer one over the rows
ExpandGridColumnMajor(start_x, start_y, x_spacing, y_spacing, x_count, y_count) ==
    [ n \in 1..(IF x_count > 0 /\ y_count > 0 THEN x_count * y_count ELSE 0) |->
        << RAdd(start_x, RMul(FromInt((n - 1) \div y_count), x_spacing)),
           RAdd(start_y, RMul(FromInt((n - 1) % y_count), y_spacing)) >> ]

expand_grid_pattern(start_x, start_y, x_spacing, y_spacing, x_count, y_count) ==
    [ n \in 1..(IF x_count > 0 /\ y_count > 0 THEN x_count * y_count ELSE 0) |->
        << RAdd(start_x, RMul(FromInt((n - 1) % x_count), x_spacing)),
           RAdd(start_y, RMul(FromInt((n - 1) \div x_count), y_spacing)) >> ]

expand_drill_operations(operations) ==
    ConcatAll([ k \in 1..Len(operations) |->
        IF Get(operations[k], "type", "single") = "single"
        THEN << << operations[k].x, operations[k].y >> >>
        ELSE IF operations[k].type = "pattern_linear"
        THEN expand_linear_pattern(operations[k].start_x, operations[k].start_y,
                                   operations[k].axis, operations[k].spacing,
                                   operations[k].count)
        ELSE IF operations[k].type = "pattern_grid"
        THEN expand_grid_pattern(operations[k].start_x, operations[k].start_y,
                                 operations[k].x_spacing, operations[k].y_spacing,
                                 operations[k].x_count, operations[k].y_count)
        ELSE <<>> ])

\* the lead-in settings an expanded circle or hexagon keeps
lead_in_settings(op) ==
    [lead_in_mode |-> Get(op, "lead_in_mode", "auto"),
     lead_in_type |-> Get(op, "lead_in_type", "helical"),
     lead_in_approach_angle |-> Get(op, "lead_in_approach_angle", 90)]

\* the dict appended for one centre of a circular or hexagonal operation;
\* size is "diameter" or "flat_to_flat"
ExpandedCut(op, size, centre) ==
    (size :> op[size]) @@
    [center_x |-> centre[1], center_y |-> centre[2],
     compensation |-> Get(op, "compensation", "interior")] @@ lead_in_settings(op)

ExpandCuts(operations, size) ==
    ConcatAll([ k \in 1..Len(operations) |->
        IF Get(operations[k], "type", "single") = "single"
        THEN << ExpandedCut(operations[k], size,
                            << operations[k].center_x, operations[k].center_y >>) >>
        ELSE IF operations[k].type = "pattern_linear"
        THEN [ i \in 1..operations[k].count |->
                 ExpandedCut(operations[k], size,
                     expand_linear_pattern(operations[k].start_center_x,
                         operations[k].start_center_y, operations[k].axis,
                         operations[k].spacing, operations[k].count)[i]) ]
        ELSE <<>> ])

expand_circular_operations(operations) == ExpandCuts(operations, "diameter")

expand_hexagonal_operations(operations) == ExpandCuts(operations, "flat_to_flat")

expand_all_operations(operations) ==
    [drill_points |-> expand_drill_operations(Get(operations, "drill_holes", <<>>)),
     circular_cuts |-> expand_circular_operations(Get(operations, "circular_cuts", <<>>)),
     hexagonal_cuts |-> expand_hexagonal_operations(Get(operations, "hexagonal_cuts", <<>>)),
     line_cuts |-> Get(operations, "line_cuts", <<>>)]

\* material is [outer_width, outer_height, wall_thickness]
calculate_void_bounds(material) ==
    << material.wall_thickness, material.wall_thickness,
       RSub(material.outer_width, material.wall_thickness),
       RSub(material.outer_height, material.wall_thickness) >>

\* the test with the boundary of the void counted as inside
PointInClosedVoid(x, y, void_bounds, tool_radius) ==
    /\ RLe(void_bounds[1], RSub(x, tool_radius))
    /\ RLe(RAdd(x, tool_radius), void_bounds[3])
    /\ RLe(void_bounds[2], RSub(y, tool_radius))
    /\ RLe(RAdd(y, tool_radius), void_bounds[4])

point_in_void(x, y, void_bounds, tool_radius) ==
    /\ RLt(void_bounds[1], RSub(x, tool_radius))
    /\ RLt(RAdd(x, tool_radius), void_bounds[3])
    /\ RLt(void_bounds[2], RSub(y, tool_radius))
    /\ RLt(RAdd(y, tool_radius), void_bounds[4])

\* [valid, skipped]
filter_drill_points(points, void_bounds, tool_diameter) ==
    LET InVoid(pt) == point_in_void(pt[1], pt[2], void_bounds, RDivInt(tool_diameter, 2))
    IN  [valid |-> SelectSeq(points, LAMBDA pt : ~InVoid(pt)),
         skipped |-> SelectSeq(points, InVoid)]

circle_in_void(center_x, center_y, diameter, void_bounds) ==
    point_in_void(center_x, center_y, void_bounds, RDivInt(diameter, 2))

hexagon_in_void(center_x, center_y, flat_to_flat, void_bounds) ==
    point_in_void(center_x, center_y, void_bounds, RMul(flat_to_flat, InvSqrt3))

\* [valid, skipped]
filter_circular_cuts(cuts, void_bounds) ==
    LET InVoid(cut) == circle_in_void(cut.center_x, cut.center_y, cut.diameter, void_bounds)
    IN  [valid |-> SelectSeq(cuts, LAMBDA cut : ~InVoid(cut)),
         skipped |-> SelectSeq(cuts, InVoid)]

filter_hexagonal_cuts(cuts, void_bounds) ==
    LET InVoid(cut) == hexagon_in_void(cut.center_x, cut.center_y, cut.flat_to_flat,
                                       void_bounds)
    IN  [valid |-> SelectSeq(cuts, LAMBDA cut : ~InVoid(cut)),
         skipped |-> SelectSeq(cuts, InVoid)]

\* a diameter is None or Some(size); a size of zero is as good as none
Truthy(opt) == opt # None /\ opt[1][1] # 0

filter_operations_for_tube(expanded_ops, material, drill_diameter, end_mill_diameter) ==
    IF material.form # "tube"
    THEN [skipped_drill_points |-> <<>>, skipped_circular_cuts |-> <<>>,
          skipped_hexagonal_cuts |-> <<>>] @@ expanded_ops
    ELSE
    LET void_bounds == calculate_void_bounds(material)
        drills == IF Truthy(drill_diameter)
                  THEN filter_drill_points(Get(expanded_ops, "drill_points", <<>>),
                                           void_bounds, drill_diameter[1])
                  ELSE [valid |-> Get(expanded_ops, "drill_points", <<>>), skipped |-> <<>>]
        circles == IF Truthy(end_mill_diameter)
                   THEN filter_circular_cuts(Get(expanded_ops, "circular_cuts", <<>>),
                                             void_bounds)
                   ELSE [valid |-> Get(expanded_ops, "circular_cuts", <<>>), skipped |-> <<>>]
        hexagons == IF Truthy(end_mill_diameter)
                    THEN filter_hexagonal_cuts(Get(expanded_ops, "hexagonal_cuts", <<>>),
                                               void_bounds)
                    ELSE [valid |-> Get(expanded_ops, "hexagonal_cuts", <<>>),
                          skipped |-> <<>>]
    IN  [line_cuts |-> Get(expanded_ops, "line_cuts", <<>>),
         drill_points |-> drills.valid, skipped_drill_points |-> drills.skipped,
         circular_cuts |-> circles.valid, skipped_circular_cuts |-> circles.skipped,
         hexagonal_cuts |-> hexagons.valid, skipped_hexagonal_cuts |-> hexagons.skipped]

\* GCodeService.prepare_operations; proj is a Project: [project_type,
\* material, drill_tool, end_mill_tool, operations, tube_void_skip], where
\* material and the tools are None or Some(row)
prepare_operations(proj) ==
    IF proj.material # None /\ proj.material[1].form = "tube" /\ proj.tube_void_skip
    THEN filter_operations_for_tube(
             expand_all_operations(proj.operations), proj.material[1],
             IF proj.project_type = "drill" /\ proj.drill_tool # None
             THEN Some(proj.drill_tool[1].size) ELSE None,
             IF proj.project_type # "drill" /\ proj.end_mill_tool # None
             THEN Some(proj.end_mill_tool[1].size) ELSE None)
    ELSE expand_all_operations(proj.operations)

(***************************************************************************)
(* The planner on its own: the inputs are drawn in the initial state and   *)
(* each planner function is applied to them once.                          *)
(***************************************************************************)
\* the value of a variable that takes no part in a specification
NoRecord == [unused |-> TRUE]

MaxDepth == 12      \* largest total depth tried, in 0.0001 inch
MaxPassDepth == 7   \* largest maximum pass depth tried, in 0.0001 inch

InitPasses ==
    /\ material_depth \in {FromInt(n) : n \in 0..MaxDepth}
    /\ pass_depth \in {FromInt(n) : n \in 0..MaxPassDepth}
    /\ passes = <<>>
    /\ pecks = <<>>
    /\ pc = "inputs"
    /\ gen_settings = NoRecord
    /\ project = NoRecord
    /\ gen = NoRecord
    /\ results = <<>>
    /\ mach = NoRecord

IterPasses ==
    /\ pc = "inputs"
    /\ passes' = iter_passes(material_depth, pass_depth)
    /\ pc' = "planned"
    /\ UNCHANGED <<material_depth, pass_depth, pecks, gen_settings, project, gen, results, mach>>

CalculatePassDepths ==
    /\ pc = "planned"
    /\ pecks' = calculate_pass_depths(material_depth, pass_depth)
    /\ pc' = "done"
    /\ UNCHANGED <<material_depth, pass_depth, passes, gen_settings, project, gen, results, mach>>

NextPasses == IterPasses \/ CalculatePassDepths

SpecPasses == InitPasses /\ [][NextPasses]_vars

(***************************************************************************)
(* C5: for every total depth D > 0 and maximum pass depth p > 0 the        *)
(* planner yields exactly ceil(D/p) passes, every per-pass depth equals    *)
(* D / ceil(D/p), the cumulative depths increase strictly and the last     *)
(* cumulative depth is D.                                                  *)
(***************************************************************************)
CeilQuotient(D, p) ==
    CHOOSE n \in 1..(D[1] + 1) : (n - 1) * p[1] * D[2] < D[1] * p[2]
                                 /\ D[1] * p[2] <= n * p[1] * D[2]

C5_EqualPasses ==
    (pc # "inputs" /\ RLt(FromInt(0), material_depth) /\ RLt(FromInt(0), pass_depth)) =>
        LET N == CeilQuotient(material_depth, pass_depth)
        IN  /\ Len(passes) = N
            /\ \A k \in 1..Len(passes) :
                 /\ passes[k].pass_num = k - 1
                 /\ REq(RMul(passes[k].per_pass, FromInt(N)), material_depth)
                 /\ k > 1 => RLt(passes[k - 1].cumulative, passes[k].cumulative)
            /\ REq(passes[Len(passes)].cumulative, material_depth)

C5_Witness ==
    /\ pc = "planned"
    /\ REq(material_depth, FromInt(10))
    /\ REq(pass_depth, FromInt(4))
    /\ Len(passes) = 3

(***************************************************************************)
(* Inputs of the generator.  Lengths are in 0.0001 inch, feeds in          *)
(* 0.1 inch/minute.                                                        *)
(***************************************************************************)
BaseSettings ==
    [safety_height |-> FromInt(5000), travel_height |-> FromInt(2000),
     spindle_warmup_seconds |-> 2, supports_subroutines |-> TRUE,
     circle_lead_in_type |-> "none", hexagon_lead_in_type |-> "none",
     line_lead_in_type |-> "none", ramp_angle |-> 45, helix_pitch |-> FromInt(400),
     first_pass_feed_factor |-> Rat(7, 10),
     corner_slowdown_enabled |-> TRUE, corner_feed_factor |-> Rat(1, 2),
     arc_slowdown_enabled |-> TRUE, arc_feed_factor |-> Rat(8, 10)]

DrillParams ==
    [spindle_speed |-> 1000, feed_rate |-> FromInt(80), plunge_rate |-> FromInt(40),
     pecking_depth |-> FromInt(500), pass_depth |-> Zero, tool_diameter |-> FromInt(1250)]

CutParams ==
    [spindle_speed |-> 1200, feed_rate |-> FromInt(450), plunge_rate |-> FromInt(80),
     pecking_depth |-> Zero, pass_depth |-> FromInt(500), tool_diameter |-> FromInt(1250)]

NoOperations ==
    [drill_points |-> <<>>, circular_cuts |-> <<>>, hexagonal_cuts |-> <<>>, line_cuts |-> <<>>]

Circle(cx, cy, diameter, hold_time) ==
    [center_x |-> FromInt(cx), center_y |-> FromInt(cy), diameter |-> FromInt(diameter),
     compensation |-> "interior", hold_time |-> hold_time,
     lead_in_mode |-> "auto", lead_in_type |-> "none", lead_in_approach_angle |-> 90]

Hexagon(cx, cy, flat_to_flat, hold_time) ==
    [center_x |-> FromInt(cx), center_y |-> FromInt(cy), flat_to_flat |-> FromInt(flat_to_flat),
     compensation |-> "interior", hold_time |-> hold_time,
     lead_in_mode |-> "auto", lead_in_type |-> "none", lead_in_approach_angle |-> 90]

LineCutOf(points, hold_time) ==
    [points |-> points, compensation |-> "none", hold_time |-> hold_time,
     lead_in_mode |-> "auto", lead_in_type |-> "none", lead_in_approach_angle |-> 90]

LinearPattern(start_x, start_y, axis, spacing, count) ==
    [type |-> "pattern_linear", start_x |-> FromInt(start_x), start_y |-> FromInt(start_y),
     axis |-> axis, spacing |-> FromInt(spacing), count |-> count]

GridPattern(start_x, start_y, x_spacing, y_spacing, x_count, y_count) ==
    [type |-> "pattern_grid", start_x |-> FromInt(start_x), start_y |-> FromInt(start_y),
     x_spacing |-> FromInt(x_spacing), y_spacing |-> FromInt(y_spacing),
     x_count |-> x_count, y_count |-> y_count]

SingleHole(x, y) == [type |-> "single", x |-> FromInt(x), y |-> FromInt(y)]

\* a quarter arc whose end is 20 units further from the centre than its start
MismatchedArcPath == << Straight(0, 0), Straight(1000, 0), Arc(1520, 500, 1000, 500, "auto") >>
StraightPath == << Straight(0, 0), Straight(1000, 0) >>

(***************************************************************************)
(* The generator object over several generations.  The caller hands the    *)
(* same operations to every call; it either calls generate again on the    *)
(* object it has or constructs a new object first.  The operation lists    *)
(* have 0, 2 or (size of a number range + ExtraOps) entries per kind.      *)
(***************************************************************************)
ExtraOps == 2   \* operations of one kind beyond the 100 numbers of its range
MaxRuns == 2    \* generations per behaviour

RangeSize == DrillRangeEnd - DrillRangeStart + 1

ManyDrillPatterns(n) == [ k \in 1..n |-> LinearPattern(1000, 100 * k, "x", 2500, 2) ]
ManyCircles(n) == [ k \in 1..n |-> Circle(10000, 10000, 3000 + 10 * k, Zero) ]
ManyHexagons(n) == [ k \in 1..n |-> Hexagon(10000, 10000, 3000 + 10 * k, Zero) ]
ManyLineCuts(n) ==
    [ k \in 1..n |-> LineCutOf(IF k = 1 THEN MismatchedArcPath ELSE StraightPath, Zero) ]

GenProject(nd, nc, nh, nl) ==
    [expanded_ops |-> [drill_points |-> expand_drill_operations(ManyDrillPatterns(nd)),
                       circular_cuts |-> ManyCircles(nc),
                       hexagonal_cuts |-> ManyHexagons(nh),
                       line_cuts |-> ManyLineCuts(nl)],
     drill_params |-> Some(DrillParams),
     cut_params |-> Some(CutParams),
     original_operations |-> Some([drill_holes |-> ManyDrillPatterns(nd)]),
     counts |-> [drill |-> nd, circular |-> nc, hexagonal |-> nh, line |-> nl]]

InitGen ==
    /\ material_depth = FromInt(1250)
    /\ pass_depth = Zero
    /\ passes = <<>>
    /\ pecks = <<>>
    /\ pc = "constructed"
    /\ gen_settings \in { [BaseSettings EXCEPT !.supports_subroutines = b] : b \in BOOLEAN }
    /\ \E nd \in {0, RangeSize + ExtraOps}, nc \in {0, 2, RangeSize + ExtraOps},
          nh \in {0, 2}, nl \in {0, 2, RangeSize + ExtraOps} :
            project = GenProject(nd, nc, nh, nl)
    /\ gen = NewGeneratorState
    /\ results = <<>>
    /\ mach = NoRecord

\* generate returns: the caller has the result, the object keeps its state
Return(out) ==
    /\ gen' = out.gs
    /\ results' = Append(results, out.result)

\* WebGCodeGenerator.generate on the object at hand
Generate ==
    /\ pc \in {"constructed", "generated"}
    /\ Len(results) < MaxRuns
    /\ Has(project, "expanded_ops")
    /\ Return(generate(gen_settings, material_depth, gen, project.expanded_ops,
                       project.drill_params, project.cut_params,
                       project.original_operations))
    /\ pc' = "generated"
    /\ UNCHANGED <<material_depth, pass_depth, passes, pecks, gen_settings, project, mach>>

\* WebGCodeGenerator.__init__: the caller replaces its generator by a new one
NewGenerator ==
    /\ pc = "generated"
    /\ Len(results) < MaxRuns
    /\ gen' = NewGeneratorState
    /\ pc' = "constructed"
    /\ UNCHANGED <<material_depth, pass_depth, passes, pecks, gen_settings, project,
                   results, mach>>

NextGen == Generate \/ NewGenerator

SpecGen == InitGen /\ [][NextGen]_vars

(***************************************************************************)
(* C1: within one generation, for any number of drill-pattern,             *)
(* circle-group, hexagon and line-cut subroutines (more than 100 of one    *)
(* kind included), every assigned subroutine number lies in the range of   *)
(* its operation kind (drill 1000-1099, circular 1100-1199, hexagonal      *)
(* 1200-1299, line 1300-1399) and no two subroutines share a number.       *)
(* The state looked at is the one after the first generation of a          *)
(* generator object: the calls of the main program tell the kind each      *)
(* number was assigned for, used_subroutine_numbers lists the assignments. *)
(***************************************************************************)
CallLines(main_gcode) == SelectSeq(main_gcode, LAMBDA line : line.g = "M98")

InDeclaredRange(kind, num) ==
    SUBROUTINE_RANGES(kind)[1] <= num /\ num <= SUBROUTINE_RANGES(kind)[2]

NoDuplicates(seq) == \A i, j \in DOMAIN seq : i # j => seq[i] # seq[j]

C1_NumbersInRangeAndUnique ==
    Len(results) = 1 =>
        /\ \A k \in DOMAIN CallLines(results[1].main_gcode) :
              LET call == CallLines(results[1].main_gcode)[k]
              IN  InDeclaredRange(call.kind, call.sub)
        /\ NoDuplicates(gen.used_subroutine_numbers)

(***************************************************************************)
(* C10: a generation carries no state into the next one.  A second         *)
(* generate with the same inputs, on the same generator object included,   *)
(* returns the same main program, the same subroutine numbers and bodies   *)
(* and the same warnings as the first.                                     *)
(***************************************************************************)
C10_SecondRunSameResult ==
    Len(results) = 2 => results[2] = results[1]

(***************************************************************************)
(* The machine (Mach3 reading of the emitted text).  Positions are the     *)
(* printed numbers.  G90 / G91 switch between absolute and relative        *)
(* coordinates for the X, Y and Z words of a move; I and J are always      *)
(* relative.  M98 runs a subroutine file L times, M99 ends one run of it.  *)
(* A line whose command word the machine does not know stops the program   *)
(* with an error.                                                          *)
(*                                                                         *)
(* mach.stack is the call stack, innermost frame last; a frame is          *)
(* [sub, ip, k, L, kind, op]: the file (0 = main program), the next line,  *)
(* the number of the running invocation, the loop count of the call and    *)
(* the operation the call was emitted for.  mach.last describes the line   *)
(* executed last.  mach.cycle and mach.drilled keep a record of what was   *)
(* machined: the pecks made at the present XY position, the highest Z      *)
(* reached since the last peck, and the XY positions drilled so far.       *)
(***************************************************************************)
Program == results[Len(results)]

Top == mach.stack[Len(mach.stack)]

FileOf(frame) ==
    IF frame.sub = 0 THEN Program.main_gcode ELSE Program.subroutines[frame.sub]

CurrentLine == FileOf(Top)[Top.ip]

Running == pc = "running" /\ mach.status = "running" /\ mach.stack # <<>>
           /\ Top.ip <= Len(FileOf(Top))

MotionWords == {"G00", "G01", "G02", "G03"}
ModeWords == {"G90", "G91", "G20 G90"}
IdleWords == {"G04", "M03", "M05"}
KnownWords == MotionWords \cup ModeWords \cup IdleWords \cup {"M98", "M99", "M30", "%"}

Advance(stack) == [stack EXCEPT ![Len(stack)].ip = @ + 1]

\* the operation a line belongs to: that of the call inside a subroutine,
\* the annotation of the line in the main program
KindOf(frame, line) ==
    IF frame.sub # 0 THEN frame.kind ELSE IF Has(line, "kind") THEN line.kind ELSE "none"
OpOf(frame, line) ==
    IF frame.sub # 0 THEN frame.op ELSE IF Has(line, "op") THEN line.op ELSE 0
\* the pass a line is executed in, counted from 0
PassOf(frame, line) ==
    IF frame.sub # 0 THEN frame.k - 1 ELSE IF Has(line, "pass") THEN line.pass ELSE 0

Executed(frame, line, mode, z, peck_index, rose_to) ==
    [line |-> line, sub |-> frame.sub, k |-> frame.k, L |-> frame.L,
     kind |-> KindOf(frame, line), op |-> OpOf(frame, line),
     pass |-> PassOf(frame, line), mode |-> mode, z |-> z,
     peck_index |-> peck_index, rose_to |-> rose_to,
     from |-> << mach.x, mach.y, mach.z >>]

InitialMachine ==
    [x |-> 0, y |-> 0, z |-> 0, mode |-> "G90", status |-> "running",
     stack |-> << [sub |-> 0, ip |-> 1, k |-> 1, L |-> 1, kind |-> "main", op |-> 0] >>,
     last |-> [line |-> [g |-> "none", role |-> "none"], sub |-> 0, k |-> 0, L |-> 0,
               kind |-> "none", op |-> 0, pass |-> 0, mode |-> "G90", z |-> 0,
               peck_index |-> 0, rose_to |-> 0, from |-> << 0, 0, 0 >>],
     cycle |-> [count |-> 0, top |-> 0],
     drilled |-> {}]

\* the operator loads the program that was generated last and presses start
LoadProgram ==
    /\ pc = "generated"
    /\ results # <<>>
    /\ mach' = InitialMachine
    /\ pc' = "running"
    /\ UNCHANGED <<material_depth, pass_depth, passes, pecks, gen_settings, project,
                   gen, results>>

Target(current, line, word, mode) ==
    IF ~Has(line, word) THEN current
    ELSE IF mode = "G90" THEN line[word] ELSE current + line[word]

Max(a, b) == IF a >= b THEN a ELSE b

ExecMove ==
    /\ Running
    /\ CurrentLine.g \in MotionWords
    /\ LET line == CurrentLine
           x2 == Target(mach.x, line, "X", mach.mode)
           y2 == Target(mach.y, line, "Y", mach.mode)
           z2 == Target(mach.z, line, "Z", mach.mode)
           is_peck == line.role = "peck"
           moved == Has(line, "X") \/ Has(line, "Y")
       IN  mach' = [mach EXCEPT
                !.x = x2, !.y = y2, !.z = z2,
                !.stack = Advance(@),
                !.last = Executed(Top, line, mach.mode, z2,
                                  IF is_peck THEN mach.cycle.count + 1 ELSE 0,
                                  IF is_peck THEN mach.cycle.top ELSE 0),
                !.cycle = IF moved THEN [count |-> 0, top |-> z2]
                          ELSE IF is_peck THEN [count |-> @.count + 1, top |-> z2]
                          ELSE [count |-> @.count, top |-> Max(@.top, z2)],
                !.drilled = IF is_peck THEN @ \cup { <<x2, y2>> } ELSE @]
    /\ UNCHANGED <<material_depth, pass_depth, passes, pecks, pc, gen_settings, project,
                   gen, results>>

ExecMode ==
    /\ Running
    /\ CurrentLine.g \in ModeWords
    /\ mach' = [mach EXCEPT
            !.mode = IF CurrentLine.g = "G91" THEN "G91" ELSE "G90",
            !.stack = Advance(@),
            !.last = Executed(Top, CurrentLine, mach.mode, mach.z, 0, 0)]
    /\ UNCHANGED <<material_depth, pass_depth, passes, pecks, pc, gen_settings, project,
                   gen, results>>

ExecIdle ==
    /\ Running
    /\ CurrentLine.g \in IdleWords
    /\ mach' = [mach EXCEPT
            !.stack = Advance(@),
            !.last = Executed(Top, CurrentLine, mach.mode, mach.z, 0, 0)]
    /\ UNCHANGED <<material_depth, pass_depth, passes, pecks, pc, gen_settings, project,
                   gen, results>>

\* M98: the file is run L times; a file that does not exist is an error
ExecCall ==
    /\ Running
    /\ CurrentLine.g = "M98"
    /\ LET line == CurrentLine
       IN  IF line.sub \in DOMAIN Program.subroutines /\ line.L >= 1
           THEN mach' = [mach EXCEPT
                    !.stack = Append(@, [sub |-> line.sub, ip |-> 1, k |-> 1, L |-> line.L,
                                         kind |-> KindOf(Top, line), op |-> OpOf(Top, line)]),
                    !.last = Executed(Top, line, mach.mode, mach.z, 0, 0)]
           ELSE mach' = [mach EXCEPT
                    !.stack = Advance(@),
                    !.last = Executed(Top, line, mach.mode, mach.z, 0, 0)]
    /\ UNCHANGED <<material_depth, pass_depth, passes, pecks, pc, gen_settings, project,
                   gen, results>>

\* M99: the next invocation of the loop, or back to the line after the call
ExecReturn ==
    /\ Running
    /\ CurrentLine.g = "M99"
    /\ Len(mach.stack) > 1
    /\ mach' = [mach EXCEPT
            !.stack = IF Top.k < Top.L
                      THEN [@ EXCEPT ![Len(@)].ip = 1, ![Len(@)].k = @ + 1]
                      ELSE Advance(SubSeq(@, 1, Len(@) - 1)),
            !.last = Executed(Top, CurrentLine, mach.mode, mach.z, 0, 0)]
    /\ UNCHANGED <<material_depth, pass_depth, passes, pecks, pc, gen_settings, project,
                   gen, results>>

\* M30: end of program
ExecEnd ==
    /\ Running
    /\ CurrentLine.g = "M30"
    /\ mach' = [mach EXCEPT !.status = "done",
                            !.last = Executed(Top, CurrentLine, mach.mode, mach.z, 0, 0)]
    /\ pc' = "finished"
    /\ UNCHANGED <<material_depth, pass_depth, passes, pecks, gen_settings, project,
                   gen, results>>

\* a line the machine cannot read
ExecInvalid ==
    /\ Running
    /\ CurrentLine.g \notin KnownWords
    /\ mach' = [mach EXCEPT !.status = "error",
                            !.last = Executed(Top, CurrentLine, mach.mode, mach.z, 0, 0)]
    /\ pc' = "finished"
    /\ UNCHANGED <<material_depth, pass_depth, passes, pecks, gen_settings, project,
                   gen, results>>


(***************************************************************************)
(* Generation followed by the run of the program on the machine.  A drill  *)
(* project goes through GCodeService.generate_with_params (expansion, tube *)
(* void filter, a new generator, generate with the operations as entered); *)
(* a cut project is handed to WebGCodeGenerator.generate directly.         *)
(***************************************************************************)
CornerPath == << Straight(0, 0), Straight(1000, 0), Straight(1000, 1000) >>
SquarePath == << Straight(0, 0), Straight(1000, 0), Straight(1000, 1000),
                 Straight(0, 1000), Straight(0, 0) >>
\* two quarter arcs about (1000, 0), both clockwise by geometry
HintedArcPath == << Straight(0, 0), Arc(1000, 1000, 1000, 0, "cw"),
                    Arc(2000, 0, 1000, 0, "ccw") >>

(***************************************************************************)
(* GCodeService (src/web/services/gcode_service.py).  A Project is         *)
(* [project_type, material, drill_tool, end_mill_tool, operations,         *)
(* tube_void_skip]; material and the tools are None or Some(row), and a    *)
(* row's id is set exactly when the row is.  A Material is [form,          *)
(* thickness, wall_thickness, outer_width, outer_height, gcode_standards], *)
(* a Tool is [tool_type, size, tip_compensation].  gcode_standards maps a  *)
(* tool type to a map from the printed tool size to a parameter entry.     *)
(* The settings rows are those of seed_data.py; the GenerationSettings     *)
(* built from them are the value of gen_settings.  Line cuts carry         *)
(* compensation "none", so validate checks their points as given.          *)
(***************************************************************************)
MachineSettings == [max_x |-> FromInt(150000), max_y |-> FromInt(150000)]

GeneralSettings ==
    [max_stepdown_factor |-> Rat(1, 2), allow_negative_coordinates |-> FALSE,
     cut_through_buffer |-> FromInt(100)]

DefaultMaterialDepth == 1250

get_material_depth(material) ==
    IF material.form = "tube" THEN OrDefault(material.wall_thickness, DefaultMaterialDepth)
    ELSE OrDefault(material.thickness, DefaultMaterialDepth)

\* the decimal digits of f, width of them, leading zeros kept
RECURSIVE Digits(_, _)
Digits(f, width) ==
    IF width = 0 THEN "" ELSE Digits(f \div 10, width - 1) \o ToString(f % 10)

\* the fraction f / 10^width without its trailing zeros, one digit at least
RECURSIVE Fraction(_, _)
Fraction(f, width) ==
    IF width > 1 /\ f % 10 = 0 THEN Fraction(f \div 10, width - 1) ELSE Digits(f, width)

\* str(tool_size) of a size that is a whole number of 0.0001 inch
SizeKey(tool_size) ==
    ToString(tool_size[1] \div 10000) \o "." \o Fraction(tool_size[1] % 10000, 4)

\* None or Some(entry); an entry without a field yields None for it,
\* which is Zero here as in ToolParams
get_gcode_params(material, tool_size, tool_type) ==
    IF material = None \/ material[1].gcode_standards = <<>> THEN None
    ELSE LET tool_standards == Get(material[1].gcode_standards, tool_type, <<>>)
             size_key == SizeKey(tool_size)
         IN  IF size_key \notin DOMAIN tool_standards THEN None
             ELSE Some([spindle_speed |-> tool_standards[size_key].spindle_speed,
                        feed_rate |-> tool_standards[size_key].feed_rate,
                        plunge_rate |-> tool_standards[size_key].plunge_rate,
                        pecking_depth |-> Get(tool_standards[size_key], "pecking_depth", Zero),
                        pass_depth |-> Get(tool_standards[size_key], "pass_depth", Zero),
                        material_depth |-> get_material_depth(material[1])])

\* None or Some(ToolParams)
build_tool_params(material, tool, tool_type) ==
    IF tool = None \/ material = None THEN None
    ELSE LET params == get_gcode_params(material, tool[1].size, tool_type)
         IN  IF params = None THEN None
             ELSE Some([spindle_speed |-> params[1].spindle_speed,
                        feed_rate |-> params[1].feed_rate,
                        plunge_rate |-> params[1].plunge_rate,
                        pecking_depth |-> params[1].pecking_depth,
                        pass_depth |-> params[1].pass_depth,
                        tool_diameter |-> tool[1].size])

\* the errors of validate_stepdown (src/src/utils/validators.py); the ratio
\* pass_depth / tool_diameter exceeds 1 when pass_depth exceeds tool_diameter
validate_stepdown(cut_pass_depth, tool_diameter, max_stepdown_factor) ==
    IF RLe(cut_pass_depth, Zero) \/ RLe(tool_diameter, Zero) THEN <<>>
    ELSE IF RLt(tool_diameter, cut_pass_depth)
    THEN << "Pass depth exceeds tool diameter" >>
    ELSE <<>>

\* the error of one feature that reaches hi_x, hi_y and down to lo_x, lo_y
BoundsError(hi_x, hi_y, lo_x, lo_y, beyond, negative) ==
    IF RLt(MachineSettings.max_x, hi_x) \/ RLt(MachineSettings.max_y, hi_y)
    THEN << beyond >>
    ELSE IF ~GeneralSettings.allow_negative_coordinates
            /\ (RLt(lo_x, Zero) \/ RLt(lo_y, Zero))
    THEN << negative >>
    ELSE <<>>

StepdownErrors(proj) ==
    IF proj.project_type # "drill" /\ proj.end_mill_tool # None /\ proj.material # None
    THEN LET params == get_gcode_params(proj.material, proj.end_mill_tool[1].size,
                                        proj.end_mill_tool[1].tool_type)
         IN  IF params # None /\ params[1].pass_depth[1] # 0
             THEN validate_stepdown(params[1].pass_depth, proj.end_mill_tool[1].size,
                                    GeneralSettings.max_stepdown_factor)
             ELSE <<>>
    ELSE <<>>

has_operations(proj) ==
    IF proj.project_type = "drill" THEN Get(proj.operations, "drill_holes", <<>>) # <<>>
    ELSE \/ Get(proj.operations, "circular_cuts", <<>>) # <<>>
         \/ Get(proj.operations, "hexagonal_cuts", <<>>) # <<>>
         \/ Get(proj.operations, "line_cuts", <<>>) # <<>>

BoundsErrors(expanded) ==
    ConcatAll([ k \in 1..Len(expanded.drill_points) |->
        BoundsError(expanded.drill_points[k][1], expanded.drill_points[k][2],
                    expanded.drill_points[k][1], expanded.drill_points[k][2],
                    "Drill point exceeds machine bounds",
                    "Drill point is outside machine bounds") ])
    \o ConcatAll([ k \in 1..Len(expanded.circular_cuts) |->
        BoundsError(RAdd(expanded.circular_cuts[k].center_x,
                         RDivInt(expanded.circular_cuts[k].diameter, 2)),
                    RAdd(expanded.circular_cuts[k].center_y,
                         RDivInt(expanded.circular_cuts[k].diameter, 2)),
                    RSub(expanded.circular_cuts[k].center_x,
                         RDivInt(expanded.circular_cuts[k].diameter, 2)),
                    RSub(expanded.circular_cuts[k].center_y,
                         RDivInt(expanded.circular_cuts[k].diameter, 2)),
                    "Circle extends outside machine bounds",
                    "Circle extends past zero") ])
    \o ConcatAll([ k \in 1..Len(expanded.hexagonal_cuts) |->
        BoundsError(RAdd(expanded.hexagonal_cuts[k].center_x,
                         RDivInt(expanded.hexagonal_cuts[k].flat_to_flat, 2)),
                    RAdd(expanded.hexagonal_cuts[k].center_y,
                         RMul(expanded.hexagonal_cuts[k].flat_to_flat, InvSqrt3)),
                    RSub(expanded.hexagonal_cuts[k].center_x,
                         RDivInt(expanded.hexagonal_cuts[k].flat_to_flat, 2)),
                    RSub(expanded.hexagonal_cuts[k].center_y,
                         RMul(expanded.hexagonal_cuts[k].flat_to_flat, InvSqrt3)),
                    "Hexagon extends outside machine bounds",
                    "Hexagon extends past zero") ])
    \o ConcatAll([ k \in 1..Len(expanded.line_cuts) |->
        ConcatAll([ i \in 1..Len(expanded.line_cuts[k].points) |->
            BoundsError(expanded.line_cuts[k].points[i].x, expanded.line_cuts[k].points[i].y,
                        expanded.line_cuts[k].points[i].x, expanded.line_cuts[k].points[i].y,
                        "Line point exceeds machine bounds",
                        "Line point has negative coordinate") ]) ])

\* GCodeService.validate: the blocking errors, in the order of the source
validate(proj) ==
    (IF proj.material = None THEN << "No material selected" >> ELSE <<>>)
    \o (IF proj.project_type = "drill"
        THEN (IF proj.drill_tool = None THEN << "No drill tool selected" >> ELSE <<>>)
        ELSE (IF proj.end_mill_tool = None THEN << "No end mill tool selected" >> ELSE <<>>))
    \o StepdownErrors(proj)
    \o (IF has_operations(proj) THEN <<>> ELSE << "Project has no operations" >>)
    \o BoundsErrors(expand_all_operations(proj.operations))

\* the outcome of a call that raises ValueError
Raise(message) == [raised |-> Some(message)]

\* the material depth the generator is constructed with
ServiceDepth(proj) ==
    RAdd(RAdd(get_material_depth(proj.material[1]),
              IF proj.project_type = "drill" /\ proj.drill_tool # None
              THEN proj.drill_tool[1].tip_compensation ELSE Zero),
         IF proj.project_type # "drill" THEN GeneralSettings.cut_through_buffer ELSE Zero)

\* parameters handed to the call, or else built from the material and tool
EffectiveCutParams(proj, cut_params) ==
    IF cut_params = None /\ proj.project_type # "drill" /\ proj.end_mill_tool # None
    THEN build_tool_params(proj.material, proj.end_mill_tool,
                           proj.end_mill_tool[1].tool_type)
    ELSE cut_params

EffectiveDrillParams(proj, drill_params) ==
    IF drill_params = None /\ proj.project_type = "drill" /\ proj.drill_tool # None
    THEN build_tool_params(proj.material, proj.drill_tool, "drill")
    ELSE drill_params

\* from the parameters on: the check that some exist, a new generator, generate
GenerateFromParams(settings, proj, depth, cut_params, drill_params) ==
    IF drill_params = None /\ cut_params = None
    THEN Raise("No G-code parameters provided or found for tool/material")
    ELSE [raised |-> None, material_depth |-> depth,
          out |-> generate(settings, depth, NewGeneratorState, prepare_operations(proj),
                           drill_params, cut_params, Some(proj.operations))]

generate_with_params(settings, proj, cut_params, drill_params, skip_validation) ==
    IF ~skip_validation /\ validate(proj) # <<>> THEN Raise("Project validation failed")
    ELSE IF proj.material = None THEN Raise("No material selected")
    ELSE GenerateFromParams(settings, proj, ServiceDepth(proj),
                            EffectiveCutParams(proj, cut_params),
                            EffectiveDrillParams(proj, drill_params))

\* the entries of the material standards of the model
DrillEntry ==
    [spindle_speed |-> 1000, feed_rate |-> FromInt(80), plunge_rate |-> FromInt(40),
     pecking_depth |-> FromInt(500)]

CutEntry ==
    [spindle_speed |-> 1200, feed_rate |-> FromInt(450), plunge_rate |-> FromInt(80),
     pass_depth |-> FromInt(500)]

Standards == [drill |-> ("0.125" :> DrillEntry), end_mill_1flute |-> ("0.125" :> CutEntry)]

EighthDrill == [tool_type |-> "drill", size |-> FromInt(1250), tip_compensation |-> Zero]

EighthEndMill ==
    [tool_type |-> "end_mill_1flute", size |-> FromInt(1250), tip_compensation |-> Zero]

Sheet(thickness) ==
    [form |-> "sheet", thickness |-> FromInt(thickness), wall_thickness |-> Zero,
     outer_width |-> Zero, outer_height |-> Zero, gcode_standards |-> Standards]

\* square tube, 1 inch outside, 0.125 inch wall
SquareTube ==
    [form |-> "tube", thickness |-> Zero, wall_thickness |-> FromInt(1250),
     outer_width |-> FromInt(10000), outer_height |-> FromInt(10000),
     gcode_standards |-> Standards]

DrillProject(drill_holes, material) ==
    [project_type |-> "drill", material |-> Some(material),
     drill_tool |-> Some(EighthDrill), end_mill_tool |-> None,
     operations |-> [drill_holes |-> drill_holes, circular_cuts |-> <<>>,
                     hexagonal_cuts |-> <<>>, line_cuts |-> <<>>],
     tube_void_skip |-> TRUE]

CutProject(circles, hexagons, line_cuts) ==
    [expanded_ops |-> [drill_points |-> <<>>, circular_cuts |-> circles,
                       hexagonal_cuts |-> hexagons, line_cuts |-> line_cuts],
     drill_params |-> None,
     cut_params |-> Some(CutParams),
     original_operations |-> Some([drill_holes |-> <<>>])]

HalfSecond == Rat(1, 2)

DrillHoleLists ==
    { << SingleHole(5000, 5000) >>,
      << LinearPattern(1000, 5000, "x", 4000, 3) >>,
      << GridPattern(1000, 1000, 4000, 3000, 3, 2) >>,
      << SingleHole(1000, 1000), LinearPattern(5000, 1000, "y", 4000, 2) >> }

DrillProjects ==
    { DrillProject(holes, m) : holes \in DrillHoleLists,
                               m \in {Sheet(1000), Sheet(1250), SquareTube} }
CircleProjects ==
    { CutProject(<< Circle(10000, 10000, 3000, h) >>, <<>>, <<>>) : h \in {Zero, HalfSecond} }
HexagonProjects ==
    { CutProject(<<>>, << Hexagon(10000, 10000, 3000, h) >>, <<>>) : h \in {Zero, HalfSecond} }
LineProjects ==
    { CutProject(<<>>, <<>>, << LineCutOf(path, Zero) >>) :
        path \in {StraightPath, CornerPath, SquarePath, HintedArcPath, MismatchedArcPath} }
\* cuts whose parameters carry a pass depth of zero
ZeroPassDepthProjects ==
    { [proj EXCEPT !.cut_params = Some([CutParams EXCEPT !.pass_depth = Zero])] :
        proj \in { CutProject(<< Circle(10000, 10000, 3000, Zero) >>, <<>>, <<>>),
                   CutProject(<<>>, <<>>, << LineCutOf(StraightPath, Zero) >>) } }
TwoLineProjects ==
    { CutProject(<<>>, <<>>, << LineCutOf(MismatchedArcPath, Zero),
                               LineCutOf(StraightPath, HalfSecond) >>) }

LeadInTypes == {"none", "ramp"}

RunSettings ==
    { [BaseSettings EXCEPT !.supports_subroutines = b,
                           !.circle_lead_in_type = t,
                           !.hexagon_lead_in_type = t,
                           !.line_lead_in_type = t] : b \in BOOLEAN, t \in LeadInTypes }

InitRun ==
    /\ pass_depth = Zero
    /\ passes = <<>>
    /\ pecks = <<>>
    /\ gen_settings \in RunSettings
    /\ \/ /\ project \in DrillProjects
          /\ material_depth = Zero
          /\ pc = "requested"
       \/ /\ \/ project \in CircleProjects
             \/ project \in HexagonProjects
             \/ project \in LineProjects
             \/ project \in TwoLineProjects
             \/ project \in ZeroPassDepthProjects
          /\ material_depth \in {FromInt(1000), FromInt(1250)}
          /\ pc = "constructed"
    /\ gen = NewGeneratorState
    /\ results = <<>>
    /\ mach = NoRecord

\* the call returns a result from a new generator, or raises
Finish(outcome) ==
    IF outcome.raised # None
    THEN /\ pc' = "failed"
         /\ UNCHANGED <<material_depth, gen, results>>
    ELSE /\ pc' = "generated"
         /\ material_depth' = outcome.material_depth
         /\ Return(outcome.out)

\* GCodeService.generate_with_params for the project at hand
GenerateWithParams ==
    /\ pc = "requested"
    /\ \E skip_validation \in BOOLEAN, cut_params \in {None, Some(CutParams)},
          drill_params \in {None, Some(DrillParams)} :
            Finish(generate_with_params(gen_settings, project, cut_params, drill_params,
                                        skip_validation))
    /\ UNCHANGED <<pass_depth, passes, pecks, gen_settings, project, mach>>

NextRun ==
    \/ GenerateWithParams
    \/ Generate
    \/ LoadProgram
    \/ ExecMove
    \/ ExecMode
    \/ ExecIdle
    \/ ExecCall
    \/ ExecReturn
    \/ ExecEnd
    \/ ExecInvalid

SpecRun == InitRun /\ [][NextRun]_vars


(***************************************************************************)
(* Properties of the run of a generated program.                           *)
(***************************************************************************)
\* the machine has been started on a program
Machining == pc \in {"running", "finished"}

\* the drill points GCodeService.prepare_operations keeps, as the program
\* prints them
KeptDrillPoints ==
    LET kept == prepare_operations(project).drill_points
    IN  { << FormatCoordinate(kept[k][1]), FormatCoordinate(kept[k][2]) >> :
            k \in 1..Len(kept) }

(* C2: when the tube-void filter is active, every hole the program drills, *)
(* in the main program or through a pattern subroutine, is at one of the   *)
(* drill points the filter kept; no skipped point is machined.             *)
C2_OnlyKeptPointsDrilled ==
    (Machining /\ Has(project, "operations")) => mach.drilled \subseteq KeptDrillPoints

\* the number of passes of a cut and the depth of one pass as it is printed
CutPasses ==
    calculate_num_passes(material_depth,
                         OrDefault(project.cut_params[1].pass_depth, DefaultPassDepth))
PrintedPassDepth == FormatCoordinate(RDivInt(material_depth, CutPasses))

CutKinds == {"circular", "hexagonal", "line"}

PeckDepths ==
    calculate_pass_depths(material_depth,
                          OrDefault(DrillParams.pecking_depth, DefaultPeckingDepth))

(* C4: in every peck-drilling cycle, inline or inside a drill subroutine,  *)
(* each peck descends to its cumulative depth, and before every peck after *)
(* the first the tool has retracted to the safety height.                  *)
C4_PeckRetractsToSafetyHeight ==
    (Machining /\ mach.last.line.role = "peck") =>
        /\ mach.last.peck_index <= Len(PeckDepths)
        /\ mach.z = -FormatCoordinate(PeckDepths[mach.last.peck_index])
        /\ mach.last.peck_index > 1 =>
              mach.last.rose_to = FormatCoordinate(gen_settings.safety_height)


\* the line cuts handed to the generator, and the path of the line cut the
\* line executed last belongs to
LineCuts == project.expanded_ops.line_cuts
LastLinePath == LineCuts[mach.last.op].points

\* line k of the project has an arc whose radii differ by more than the tolerance
HasMismatchedArc(k) ==
    \E w \in SeqRange(validate_arc_geometry(LineCuts[k].points)) :
        w.kind = "arc_radius_mismatch"

\* a program line emitted for line cut k
EmittedFor(line, k) == Has(line, "kind") /\ line.kind = "line" /\ line.op = k

(* C6: a line cut with an arc whose start and end radii differ by more     *)
(* than 0.001 inch produces a warning and is skipped: the main program     *)
(* holds no positioning move, subroutine call or inline move for that line *)
(* cut.                                                                    *)
C6_MismatchedArcSkipped ==
    (Has(project, "expanded_ops") /\ results # <<>>) =>
        \A k \in 1..Len(LineCuts) :
            HasMismatchedArc(k) =>
                /\ \E w \in SeqRange(Program.warnings) : w.op = k
                /\ \A n \in 1..Len(Program.main_gcode) :
                       ~EmittedFor(Program.main_gcode[n], k)

\* a straight profile move of a cut without corners and arcs
PlainProfileMove ==
    /\ mach.last.line.role = "profile"
    /\ mach.last.line.g = "G01"
    /\ Has(mach.last.line, "F")
    /\ \/ mach.last.kind = "hexagonal"
       \/ mach.last.kind = "line" /\ LastLinePath = StraightPath

(* C7: the profile moves of pass i of a cut are made with the feed the     *)
(* safety chain gives for pass_num = i, first pass reduced and later       *)
(* passes not, in inline emission and in subroutine emission alike.        *)
C7_PassFeedFromSafetyChain ==
    (Machining /\ PlainProfileMove) =>
        mach.last.line.F =
            FormatCoordinate(AdjustedFeed(gen_settings, CutParams.feed_rate,
                                          mach.last.pass, FALSE, One))

\* the straight move executed last, emitted inline, ended at point i of its path
EndsAtPoint(i) ==
    /\ mach.last.kind = "line"
    /\ mach.last.sub = 0
    /\ mach.last.line.role = "profile"
    /\ mach.last.line.g = "G01"
    /\ mach.x = FormatCoordinate(LastLinePath[i].x)
    /\ mach.y = FormatCoordinate(LastLinePath[i].y)

(* C8: with corner slowdown enabled, the move that ends at a corner of     *)
(* severity s is made with the feed of its pass x corner_feed_factor x s:  *)
(* the global corner factor enters once.                                   *)
C8_CornerFactorAppliedOnce ==
    (Machining /\ gen_settings.corner_slowdown_enabled /\ mach.last.kind = "line") =>
        \A i \in identify_corners(LastLinePath) :
            EndsAtPoint(i) =>
                /\ Has(mach.last.line, "F")
                /\ mach.last.line.F =
                     FormatCoordinate(
                         RMul(RMul(AdjustedFeed(gen_settings, CutParams.feed_rate,
                                                mach.last.pass, FALSE, One),
                                   gen_settings.corner_feed_factor),
                              calculate_corner_feed_factor(LastLinePath, i)))

\* the line read last is the profile move to point i of its path
MoveToPoint(i) ==
    /\ mach.last.line.role = "profile"
    /\ Has(mach.last.line, "X")
    /\ Has(mach.last.line, "Y")
    /\ mach.last.line.X = FormatCoordinate(LastLinePath[i].x)
    /\ mach.last.line.Y = FormatCoordinate(LastLinePath[i].y)

(* C9: an arc point with the direction hint cw (ccw) is emitted as G02     *)
(* (G03) whatever the cross product says, in subroutine emission and in    *)
(* inline emission of line cuts.                                           *)
C9_HintDecidesArcWord ==
    (Machining /\ mach.last.kind = "line") =>
        \A i \in 2..Len(LastLinePath) :
            (/\ LastLinePath[i].line_type = "arc"
             /\ LastLinePath[i].arc_direction \in {"cw", "ccw"}
             /\ MoveToPoint(i)) =>
                mach.last.line.g = IF LastLinePath[i].arc_direction = "cw" THEN "G02"
                                   ELSE "G03"

(***************************************************************************)
(* The service on its own: one call of generate_with_params on a project   *)
(* that is complete, or lacks its material, its tool, its operations or    *)
(* its parameter entry, or has a feature out of the machine's bounds.      *)
(***************************************************************************)
\* a drill and an end mill of 0.25 inch: the standards have no entry for them
QuarterDrill == [tool_type |-> "drill", size |-> FromInt(2500), tip_compensation |-> Zero]

QuarterEndMill ==
    [tool_type |-> "end_mill_1flute", size |-> FromInt(2500), tip_compensation |-> Zero]

\* a drill with tip compensation 0.038 inch, as seeded
TippedDrill == [tool_type |-> "drill", size |-> FromInt(1250), tip_compensation |-> FromInt(380)]

\* entries without pecking_depth and pass_depth
BareStandards ==
    [drill |-> ("0.125" :> [spindle_speed |-> 1000, feed_rate |-> FromInt(80),
                            plunge_rate |-> FromInt(40)]),
     end_mill_1flute |-> ("0.125" :> [spindle_speed |-> 1200, feed_rate |-> FromInt(450),
                                      plunge_rate |-> FromInt(80)])]

\* an end mill entry whose pass depth, 0.2 inch, exceeds the tool diameter
DeepStandards ==
    [end_mill_1flute |-> ("0.125" :> [CutEntry EXCEPT !.pass_depth = FromInt(2000)])]

CutServiceProject(circles, hexagons, line_cuts) ==
    [project_type |-> "cut", material |-> Some(Sheet(1250)),
     drill_tool |-> None, end_mill_tool |-> Some(EighthEndMill),
     operations |-> [drill_holes |-> <<>>, circular_cuts |-> circles,
                     hexagonal_cuts |-> hexagons, line_cuts |-> line_cuts],
     tube_void_skip |-> TRUE]

ValidDrillProject == DrillProject(<< SingleHole(5000, 5000) >>, Sheet(1250))

ValidCutProject == CutServiceProject(<< Circle(10000, 10000, 3000, Zero) >>, <<>>, <<>>)

\* projects that differ from a valid one in the material or the tool
WithMaterial(proj) ==
    { proj,
      [proj EXCEPT !.material = None],
      [proj EXCEPT !.material = Some(SquareTube)],
      [proj EXCEPT !.material = Some([Sheet(1250) EXCEPT !.gcode_standards = <<>>])],
      [proj EXCEPT !.material = Some([Sheet(1250) EXCEPT !.gcode_standards = BareStandards])],
      [proj EXCEPT !.material = Some([Sheet(1250) EXCEPT !.gcode_standards = DeepStandards])] }

ServiceDrillProjects ==
    WithMaterial(ValidDrillProject)
    \cup { [ValidDrillProject EXCEPT !.drill_tool = t] : t \in {None, Some(QuarterDrill),
                                                               Some(TippedDrill)} }
    \cup { DrillProject(holes, Sheet(1250)) :
             holes \in { <<>>, << SingleHole(160000, 5000) >>, << SingleHole(-1000, 5000) >>,
                         << LinearPattern(140000, 5000, "x", 20000, 2) >> } }

ServiceCutProjects ==
    WithMaterial(ValidCutProject)
    \cup { [ValidCutProject EXCEPT !.end_mill_tool = t] : t \in {None, Some(QuarterEndMill)} }
    \cup { CutServiceProject(<<>>, <<>>, <<>>),
           CutServiceProject(<< Circle(149000, 10000, 3000, Zero) >>, <<>>, <<>>),
           CutServiceProject(<< Circle(1000, 10000, 3000, Zero) >>, <<>>, <<>>),
           CutServiceProject(<< Circle(10000, 10000, 3000, Zero),
                                Circle(20000, 10000, 3000, HalfSecond),
                                Circle(30000, 10000, 3000, HalfSecond),
                                Circle(40000, 10000, 4000, HalfSecond) >>, <<>>, <<>>),
           CutServiceProject(<<>>, << Hexagon(10000, 10000, 3000, Zero) >>, <<>>),
           CutServiceProject(<<>>, << Hexagon(10000, 1600, 3000, Zero) >>, <<>>),
           CutServiceProject(<<>>, <<>>, << LineCutOf(StraightPath, Zero) >>),
           CutServiceProject(<<>>, <<>>, << LineCutOf(<< Straight(0, 0), Straight(-1000, 0) >>,
                                                     Zero) >>) }

InitService ==
    /\ material_depth = Zero
    /\ pass_depth = Zero
    /\ passes = <<>>
    /\ pecks = <<>>
    /\ pc = "requested"
    /\ gen_settings \in RunSettings
    /\ project \in ServiceDrillProjects \cup ServiceCutProjects
    /\ gen = NewGeneratorState
    /\ results = <<>>
    /\ mach = NoRecord

NextService == GenerateWithParams

SpecService == InitService /\ [][NextService]_vars

\* the project at hand has no parameter entry for its material and tool
NoParameterEntry ==
    IF project.project_type = "drill"
    THEN /\ project.drill_tool # None
         /\ get_gcode_params(project.material, project.drill_tool[1].size, "drill") = None
    ELSE /\ project.end_mill_tool # None
         /\ get_gcode_params(project.material, project.end_mill_tool[1].size,
                             project.end_mill_tool[1].tool_type) = None

\* C11: a call of generate_with_params never returns a GenerationResult for
\* a project for which validate returns a blocking error.
C11_NoResultForInvalidProject == (results # <<>>) => (validate(project) = <<>>)

\* C12: validate reports a blocking error for a project whose material has
\* no parameter entry for its tool.
C12_MissingEntryIsValidationError == NoParameterEntry => (validate(project) # <<>>)

(* C13: a cut whose parameters carry pass_depth = 0, or whose total depth  *)
(* is 0, is emitted with exactly one pass: every line the machine executes *)
(* for it belongs to pass 0, and a subroutine of it is called with L = 1.  *)
C13_DegenerateCutHasOnePass ==
    (/\ Machining
     /\ Has(project, "expanded_ops")
     /\ mach.last.kind \in CutKinds
     /\ (project.cut_params[1].pass_depth = Zero \/ material_depth = Zero)) =>
        /\ mach.last.pass = 0
        /\ mach.last.sub # 0 => mach.last.L = 1

\* the circular cuts of the project at hand, all of them single and auto-mode
ProjectCircles == project.operations.circular_cuts

\* the subroutine calls the program makes for the k-th circle
CircleCalls(k) ==
    SelectSeq(Program.main_gcode,
              LAMBDA line : line.g = "M98" /\ Has(line, "kind") /\ line.kind = "circular"
                            /\ line.op = k)

\* the number of the subroutine the program calls for the k-th circle
CircleSub(k) == CircleCalls(k)[1].sub

\* the P word of the dwell of a subroutine, 0 if it has none
DwellOf(content) ==
    LET dwells == SelectSeq(content, LAMBDA line : line.g = "G04")
    IN  IF dwells = <<>> THEN 0 ELSE dwells[1].P

(* C14: in the program generated for a project with subroutines, two       *)
(* auto-mode circles are cut by the same subroutine exactly when their     *)
(* diameter, compensation and hold time are equal, and the subroutine of a *)
(* circle dwells for that circle's hold time.                              *)
C14_OneSubroutinePerTriple ==
    (/\ results # <<>>
     /\ project.project_type = "cut"
     /\ gen_settings.supports_subroutines
     /\ \A k \in 1..Len(ProjectCircles) : CircleCalls(k) # <<>>) =>
        \A i, j \in 1..Len(ProjectCircles) :
            /\ (CircleSub(i) = CircleSub(j))
                   <=> (GroupKey(ProjectCircles[i]) = GroupKey(ProjectCircles[j]))
            /\ DwellOf(Program.subroutines[CircleSub(i)])
                   = Floor(RMul(ProjectCircles[i].hold_time, FromInt(1000)))

\* the drill operations of the project at hand
DrillHoles == project.operations.drill_holes

\* the lines of the main program emitted for the k-th drill operation
DrillLines(k) ==
    SelectSeq(Program.main_gcode,
              LAMBDA line : Has(line, "kind") /\ line.kind = "drill" /\ line.op = k)

\* the drill operations of the project were emitted with subroutines
DrilledWithSubroutines ==
    /\ results # <<>>
    /\ Has(project, "operations")
    /\ project.project_type = "drill"
    /\ gen_settings.supports_subroutines
    /\ Len(prepare_operations(project).drill_points) > 1

\* the lines of a grid operation: for every row in increasing order a rapid
\* move to the start of the row, then a call of sub with L = x_count
GridRows(op, lines, sub) ==
    /\ Len(lines) = 2 * op.y_count
    /\ \A r \in 1..op.y_count :
         /\ lines[2 * r - 1].g = "G00"
         /\ lines[2 * r - 1].X = FormatCoordinate(op.start_x)
         /\ lines[2 * r - 1].Y
               = FormatCoordinate(RAdd(op.start_y, RMul(FromInt(r - 1), op.y_spacing)))
         /\ lines[2 * r].g = "M98"
         /\ lines[2 * r].L = op.x_count
         /\ lines[2 * r].sub = sub

(* C15: for a grid drill operation emitted with subroutines, the main      *)
(* program holds exactly y_count calls, all of the one subroutine created  *)
(* for the operation and each with L = x_count, and each call directly     *)
(* follows a rapid move to (start_x, start_y + row x y_spacing), for       *)
(* row = 0 .. y_count - 1 in increasing order.                             *)
C15_GridRowsCallOneSubroutine ==
    DrilledWithSubroutines =>
        \A k \in 1..Len(DrillHoles) :
            DrillHoles[k].type = "pattern_grid" =>
                /\ GridRows(DrillHoles[k], DrillLines(k), DrillLines(k)[2].sub)
                /\ DrillLines(k)[2].sub \in DOMAIN Program.subroutines
                /\ \A n \in 1..Len(DrillHoles) :
                     n # k => \A i \in 1..Len(DrillLines(n)) :
                                 DrillLines(n)[i].g = "M98"
                                     => DrillLines(n)[i].sub # DrillLines(k)[2].sub

\* the machine has returned from the second row of a grid of three columns
\* and two rows
C15_Witness ==
    /\ DrilledWithSubroutines
    /\ DrillHoles[1].type = "pattern_grid"
    /\ DrillHoles[1].x_count = 3
    /\ DrillHoles[1].y_count = 2
    /\ pc = "finished"
    /\ Len(DrillLines(1)) = 4
    /\ DrillLines(1)[3].Y = 4000
    /\ DrillLines(1)[4].L = 3

(***************************************************************************)
(* The safety coordinator on its own (src/src/utils/safety/base.py): the   *)
(* settings, the base feed and the context are drawn in the initial state; *)
(* the factory registers the adjusters and get_adjusted_feed runs the      *)
(* chain.  The call returns the feed; the record of the adjusters applied, *)
(* each with the feed it was given and the feed it returned, is kept only  *)
(* to state the order.                                                     *)
(***************************************************************************)
\* the adjusters registered arc first
AdjustersArcFirst == << "arc_slowdown", "first_pass", "corner_slowdown" >>

\* the adjusters in the order create_safety_coordinator registers them
create_safety_coordinator == << "first_pass", "corner_slowdown", "arc_slowdown" >>

is_enabled(adjuster, settings) ==
    CASE adjuster = "first_pass" -> FirstPassAdjuster_is_enabled(settings)
      [] adjuster = "corner_slowdown" -> CornerSlowdownAdjuster_is_enabled(settings)
      [] adjuster = "arc_slowdown" -> ArcSlowdownAdjuster_is_enabled(settings)

adjust_feed(adjuster, settings, feed, context) ==
    CASE adjuster = "first_pass" -> FirstPassAdjuster_adjust_feed(settings, feed, context)
      [] adjuster = "corner_slowdown" ->
             CornerSlowdownAdjuster_adjust_feed(settings, feed, context)
      [] adjuster = "arc_slowdown" -> ArcSlowdownAdjuster_adjust_feed(settings, feed, context)

\* the loop of SafetyCoordinator.get_adjusted_feed from adjuster n on;
\* sofar is [feed, applied]
RECURSIVE RunChain(_, _, _, _, _)
RunChain(adjusters, settings, context, n, sofar) ==
    IF n > Len(adjusters) THEN sofar
    ELSE IF is_enabled(adjusters[n], settings)
    THEN RunChain(adjusters, settings, context, n + 1,
             [feed |-> adjust_feed(adjusters[n], settings, sofar.feed, context),
              applied |-> Append(sofar.applied,
                  [adjuster |-> adjusters[n], given |-> sofar.feed,
                   returned |-> adjust_feed(adjusters[n], settings, sofar.feed, context)])])
    ELSE RunChain(adjusters, settings, context, n + 1, sofar)

SafetySettings ==
    { [BaseSettings EXCEPT !.first_pass_feed_factor = f, !.corner_slowdown_enabled = c,
                           !.corner_feed_factor = cf, !.arc_slowdown_enabled = a,
                           !.arc_feed_factor = af] :
        f \in {Rat(1, 2), Rat(7, 10), One, Rat(12, 10)}, c \in BOOLEAN,
        cf \in {Rat(1, 2), Rat(3, 4)}, a \in BOOLEAN, af \in {Rat(8, 10), Rat(1, 2)} }

FeedContexts ==
    { [pass_num |-> p, is_arc |-> arc, corner_factor |-> k] :
        p \in {0, 1}, arc \in BOOLEAN, k \in {Rat(1, 2), One} }

InitSafety ==
    /\ material_depth = Zero
    /\ pass_depth = Zero
    /\ passes = <<>>
    /\ pecks = <<>>
    /\ pc = "inputs"
    /\ gen_settings \in SafetySettings
    /\ project \in { [base_feed |-> FromInt(b), context |-> ctx] :
                       b \in {450, 800}, ctx \in FeedContexts }
    /\ gen = NoRecord
    /\ results = <<>>
    /\ mach = NoRecord

\* create_safety_coordinator(settings)
CreateSafetyCoordinator ==
    /\ pc = "inputs"
    /\ gen' = [adjusters |-> create_safety_coordinator]
    /\ pc' = "created"
    /\ UNCHANGED <<material_depth, pass_depth, passes, pecks, gen_settings, project,
                   results, mach>>

\* SafetyCoordinator.get_adjusted_feed(base_feed, context)
GetAdjustedFeed ==
    /\ pc = "created"
    /\ results' = << RunChain(gen.adjusters, gen_settings, project.context, 1,
                              [feed |-> project.base_feed, applied |-> <<>>]) >>
    /\ pc' = "returned"
    /\ UNCHANGED <<material_depth, pass_depth, passes, pecks, gen_settings, project,
                   gen, mach>>

NextSafety == CreateSafetyCoordinator \/ GetAdjustedFeed

SpecSafety == InitSafety /\ [][NextSafety]_vars

\* the adjusters enabled by the settings at hand, first-pass, corner, arc
EnabledInOrder ==
    SelectSeq(<< "first_pass", "corner_slowdown", "arc_slowdown" >>,
              LAMBDA adjuster : is_enabled(adjuster, gen_settings))

(* C16: the chain applies exactly the enabled adjusters, in the order      *)
(* first-pass, corner, arc; the first is given the base feed, each later   *)
(* one the feed the previous one returned, and the feed returned by the    *)
(* call is that of the last; with no adjuster enabled the call returns the *)
(* base feed.                                                              *)
C16_ChainAppliesEnabledInOrder ==
    pc = "returned" =>
        LET out == results[1]
            n == Len(out.applied)
        IN  /\ [ k \in 1..n |-> out.applied[k].adjuster ] = EnabledInOrder
            /\ \A k \in 1..n :
                 /\ out.applied[k].given
                        = (IF k = 1 THEN project.base_feed ELSE out.applied[k - 1].returned)
                 /\ out.applied[k].returned
                        = adjust_feed(out.applied[k].adjuster, gen_settings,
                                      out.applied[k].given, project.context)
            /\ out.feed = (IF n = 0 THEN project.base_feed ELSE out.applied[n].returned)
            /\ out.feed = get_adjusted_feed(gen_settings, project.base_feed, project.context)

\* first pass over an arc at a corner with the three adjusters enabled:
\* 45.0 x 0.7 x (0.5 x 0.5) x 0.8 = 6.3
C16_Witness ==
    /\ pc = "returned"
    /\ Len(results[1].applied) = 3
    /\ project.base_feed = FromInt(450)
    /\ project.context = [pass_num |-> 0, is_arc |-> TRUE, corner_factor |-> Rat(1, 2)]
    /\ gen_settings.first_pass_feed_factor = Rat(7, 10)
    /\ gen_settings.corner_feed_factor = Rat(1, 2)
    /\ gen_settings.arc_feed_factor = Rat(8, 10)
    /\ results[1].feed = FromInt(63)

(***************************************************************************)
(* The tube void filter on its own (src/src/tube_void_checker.py): a       *)
(* point, a drill diameter and a tube are drawn in the initial state and   *)
(* filter_drill_points is applied to the point and the centre of the tube. *)
(***************************************************************************)
\* rectangular tube, 1 inch by 0.8 inch outside, 0.125 inch wall
RectangularTube ==
    [form |-> "tube", thickness |-> Zero, wall_thickness |-> FromInt(1250),
     outer_width |-> FromInt(10000), outer_height |-> FromInt(8000),
     gcode_standards |-> Standards]

\* coordinates at, next to and away from the places where a drill of
\* diameter 0.125 or 0.25 inch touches the void of RectangularTube
VoidEdgeCoordinates ==
    {1250, 1874, 1875, 1876, 2500, 2501, 4000, 5499, 5500, 6124, 6125, 6126, 7500,
     8124, 8125, 8126, 8750}

InitVoid ==
    /\ material_depth = Zero
    /\ pass_depth = Zero
    /\ passes = <<>>
    /\ pecks = <<>>
    /\ pc = "inputs"
    /\ gen_settings = NoRecord
    /\ \E x \in VoidEdgeCoordinates, y \in {4000, 5499, 5500, 6124, 6125, 6126, 1875, 1876},
          d \in {1250, 2500} :
            project = [points |-> << << FromInt(x), FromInt(y) >>,
                                     << FromInt(5000), FromInt(4000) >> >>,
                       material |-> RectangularTube, tool_diameter |-> FromInt(d)]
    /\ gen = NoRecord
    /\ results = <<>>
    /\ mach = NoRecord

\* filter_drill_points(points, calculate_void_bounds(...), tool_diameter)
FilterDrillPoints ==
    /\ pc = "inputs"
    /\ results' = << filter_drill_points(project.points,
                                         calculate_void_bounds(project.material),
                                         project.tool_diameter) >>
    /\ pc' = "filtered"
    /\ UNCHANGED <<material_depth, pass_depth, passes, pecks, gen_settings, project,
                   gen, mach>>

NextVoid == FilterDrillPoints

SpecVoid == InitVoid /\ [][NextVoid]_vars

\* the tool at point pt lies strictly inside the void; in halves of a unit,
\* so that the radius is the diameter
StrictlyInsideVoid(pt, material, tool_diameter) ==
    /\ 2 * material.wall_thickness[1] < 2 * pt[1][1] - tool_diameter[1]
    /\ 2 * pt[1][1] + tool_diameter[1]
           < 2 * (material.outer_width[1] - material.wall_thickness[1])
    /\ 2 * material.wall_thickness[1] < 2 * pt[2][1] - tool_diameter[1]
    /\ 2 * pt[2][1] + tool_diameter[1]
           < 2 * (material.outer_height[1] - material.wall_thickness[1])

\* the tool at point pt reaches the boundary of the void exactly
TouchesVoidBoundary(pt, material, tool_diameter) ==
    \/ 2 * material.wall_thickness[1] = 2 * pt[1][1] - tool_diameter[1]
    \/ 2 * pt[1][1] + tool_diameter[1]
           = 2 * (material.outer_width[1] - material.wall_thickness[1])
    \/ 2 * material.wall_thickness[1] = 2 * pt[2][1] - tool_diameter[1]
    \/ 2 * pt[2][1] + tool_diameter[1]
           = 2 * (material.outer_height[1] - material.wall_thickness[1])

(* C17: the filter skips a drill point (x, y) with tool radius r exactly   *)
(* when wall < x - r, x + r < outer_width - wall, wall < y - r and         *)
(* y + r < outer_height - wall; every other point is kept, so a point      *)
(* whose tool touches the void boundary is kept.                           *)
C17_SkippedIffStrictlyInside ==
    pc = "filtered" =>
        /\ results[1].skipped
               = SelectSeq(project.points,
                           LAMBDA pt : StrictlyInsideVoid(pt, project.material,
                                                          project.tool_diameter))
        /\ results[1].valid
               = SelectSeq(project.points,
                           LAMBDA pt : ~StrictlyInsideVoid(pt, project.material,
                                                           project.tool_diameter))
        /\ \A k \in 1..Len(project.points) :
             TouchesVoidBoundary(project.points[k], project.material, project.tool_diameter)
                 => \E i \in 1..Len(results[1].valid) :
                        results[1].valid[i] = project.points[k]

\* a 0.125 inch drill at (0.8125, 0.4) touches the right edge of the void
\* and is kept, while the drill at the centre is skipped
C17_Witness ==
    /\ pc = "filtered"
    /\ project.tool_diameter = FromInt(1250)
    /\ project.points[1] = << FromInt(8125), FromInt(4000) >>
    /\ TouchesVoidBoundary(project.points[1], project.material, project.tool_diameter)
    /\ results[1].valid = << project.points[1] >>
    /\ results[1].skipped = << project.points[2] >>


(***************************************************************************)
(* GCodeService.generate (src/web/services/gcode_service.py) for drill     *)
(* projects: the call of generate_with_params with its defaults, so the    *)
(* parameters come from the entry of the material for the drill, followed  *)
(* by get_validation_warnings, which adds nothing for a drill project.     *)
(* The sheet thickness, the pecking depth of the entry and the pattern are *)
(* drawn in the initial state.                                             *)
(***************************************************************************)
\* both blocks of the method are guarded by project_type # 'drill'
get_validation_warnings(proj) == IF proj.project_type = "drill" THEN <<>> ELSE <<>>

service_generate(settings, proj) ==
    LET result == generate_with_params(settings, proj, None, None, FALSE)
    IN  IF result.raised # None THEN result
        ELSE [result EXCEPT !.out.result.warnings = @ \o get_validation_warnings(proj)]

PeckSheet(thickness, pecking_depth) ==
    [Sheet(thickness) EXCEPT
        !.gcode_standards =
            [drill |-> ("0.125" :> [DrillEntry EXCEPT !.pecking_depth = FromInt(pecking_depth)])]]

PeckThicknesses == {1000, 1250, 1600}

PeckingDepths == {300, 400, 500}

PeckPatterns ==
    { << GridPattern(10000, 10000, 5000, 5000, 2, 2) >>,
      << GridPattern(10000, 10000, 4000, 3000, 3, 2) >>,
      << LinearPattern(10000, 10000, "x", 5000, 2) >>,
      << LinearPattern(10000, 10000, "y", 2500, 3) >> }

PeckProjects ==
    { DrillProject(holes, PeckSheet(thickness, pecking_depth)) :
        holes \in PeckPatterns, thickness \in PeckThicknesses, pecking_depth \in PeckingDepths }

InitPeck ==
    /\ material_depth = Zero
    /\ pass_depth = Zero
    /\ passes = <<>>
    /\ pecks = <<>>
    /\ pc = "requested"
    /\ gen_settings \in RunSettings
    /\ project \in PeckProjects
    /\ gen = NewGeneratorState
    /\ results = <<>>
    /\ mach = NoRecord

ServiceGenerate ==
    /\ pc = "requested"
    /\ project.project_type = "drill"
    /\ Finish(service_generate(gen_settings, project))
    /\ UNCHANGED <<pass_depth, passes, pecks, gen_settings, project, mach>>

NextPeck == ServiceGenerate

SpecPeck == InitPeck /\ [][NextPeck]_vars

\* the depths below the surface at which the feed moves of a subroutine
\* end, read as the controller reads the file: Z words are absolute until
\* G91 and relative until G90; the file is entered in absolute mode
RECURSIVE DepthsReached(_, _, _, _)
DepthsReached(content, k, relative, z) ==
    IF k > Len(content) THEN <<>>
    ELSE LET line == content[k]
             z_next == IF ~Has(line, "Z") THEN z
                       ELSE IF relative THEN z + line.Z ELSE line.Z
             relative_next == IF line.g = "G91" THEN TRUE
                              ELSE IF line.g = "G90" THEN FALSE ELSE relative
         IN  (IF line.g = "G01" THEN << -z_next >> ELSE <<>>)
             \o DepthsReached(content, k + 1, relative_next, z_next)

\* after the last feed move the file holds a rapid move by spacing along
\* axis alone, read in relative mode, and nothing else moves in X or Y
StepsBySpacing(content, axis, spacing) ==
    \E s \in 1..Len(content) :
        /\ content[s].g = "G00"
        /\ Has(content[s], axis)
        /\ content[s][axis] = FormatCoordinate(spacing)
        /\ ~Has(content[s], "Z")
        /\ \A j \in 1..Len(content) :
             /\ (Has(content[j], "X") \/ Has(content[j], "Y")) => j = s
             /\ content[j].g = "G01" => j < s
        /\ \E m \in 1..(s - 1) :
             /\ content[m].g = "G91"
             /\ \A j \in m..s : content[j].g # "G90"

\* the pattern of the project at hand, its axis and its spacing
PeckPattern == project.operations.drill_holes[1]
PeckAxis ==
    IF PeckPattern.type = "pattern_grid" \/ PeckPattern.axis = "x" THEN "X" ELSE "Y"
PeckSpacing ==
    IF PeckPattern.type = "pattern_grid" THEN PeckPattern.x_spacing ELSE PeckPattern.spacing

\* generate returned a program with a drill subroutine for a sheet 0.125
\* inch thick and a drill entry with pecking depth 0.04 inch
EighthSheetPeckedByFourHundredths ==
    /\ results # <<>>
    /\ project.material[1].thickness = FromInt(1250)
    /\ project.material[1].gcode_standards.drill["0.125"].pecking_depth = FromInt(400)
    /\ gen_settings.supports_subroutines

(* C18, as stated: for material depth 0.125 and pecking depth 0.04 the     *)
(* drill subroutine pecks to the cumulative depths 0.04, 0.08, 0.12 and    *)
(* 0.125 and then rapid-translates by the pattern spacing in relative      *)
(* mode.                                                                   *)
C18_PecksByPeckingDepth ==
    EighthSheetPeckedByFourHundredths =>
        \A n \in DOMAIN Program.subroutines :
            /\ DepthsReached(Program.subroutines[n], 1, FALSE, 0) = << 400, 800, 1200, 1250 >>
            /\ StepsBySpacing(Program.subroutines[n], PeckAxis, PeckSpacing)

(* C18, amended: for material depth 0.125 and pecking depth 0.04 the drill *)
(* subroutine pecks four times, to the cumulative depths 0.03125, 0.0625,  *)
(* 0.09375 and 0.125 of four equal pecks, printed to four decimals as      *)
(* 0.0312, 0.0625, 0.0938 and 0.1250, and then rapid-translates by the     *)
(* pattern spacing in relative mode.                                       *)
C18_PecksFourEqualDepths ==
    EighthSheetPeckedByFourHundredths =>
        /\ DOMAIN Program.subroutines # {}
        /\ \A n \in DOMAIN Program.subroutines :
            /\ DepthsReached(Program.subroutines[n], 1, FALSE, 0) = << 312, 625, 938, 1250 >>
            /\ StepsBySpacing(Program.subroutines[n], PeckAxis, PeckSpacing)

\* the grid of two by two holes half an inch apart was generated and its
\* subroutine 1000 steps by 0.5 inch along X
C18_Witness ==
    /\ EighthSheetPeckedByFourHundredths
    /\ pc = "generated"
    /\ PeckPattern = GridPattern(10000, 10000, 5000, 5000, 2, 2)
    /\ 1000 \in DOMAIN Program.subroutines
    /\ Len(DepthsReached(Program.subroutines[1000], 1, FALSE, 0)) = 4
    /\ StepsBySpacing(Program.subroutines[1000], "X", FromInt(5000))


(***************************************************************************)
(* Pattern expansion on its own (src/src/pattern_expander.py): the         *)
(* operations of a project are drawn in the initial state, expanded, and   *)
(* the expanded operations are handed to expand_all_operations again.      *)
(***************************************************************************)
CircleRow(start_center_x, start_center_y, axis, spacing, count, diameter) ==
    [type |-> "pattern_linear", start_center_x |-> FromInt(start_center_x),
     start_center_y |-> FromInt(start_center_y), axis |-> axis,
     spacing |-> FromInt(spacing), count |-> count, diameter |-> FromInt(diameter)]

HexagonRow(start_center_x, start_center_y, axis, spacing, count, flat_to_flat) ==
    [type |-> "pattern_linear", start_center_x |-> FromInt(start_center_x),
     start_center_y |-> FromInt(start_center_y), axis |-> axis,
     spacing |-> FromInt(spacing), count |-> count, flat_to_flat |-> FromInt(flat_to_flat)]

ExpandableOperations ==
    { [drill_holes |-> holes, circular_cuts |-> circles, hexagonal_cuts |-> hexagons,
       line_cuts |-> line_cuts] :
        holes \in DrillHoleLists \cup { <<>> },
        circles \in { <<>>, << Circle(10000, 10000, 3000, Zero) >>,
                      << CircleRow(10000, 10000, "x", 10000, 2, 3000) >> },
        hexagons \in { <<>>, << Hexagon(10000, 10000, 3000, Zero) >>,
                       << HexagonRow(10000, 10000, "y", 10000, 2, 3000) >> },
        line_cuts \in { <<>>, << LineCutOf(StraightPath, Zero) >> } }

InitExpand ==
    /\ material_depth = Zero
    /\ pass_depth = Zero
    /\ passes = <<>>
    /\ pecks = <<>>
    /\ pc = "inputs"
    /\ gen_settings = NoRecord
    /\ project \in ExpandableOperations
    /\ gen = NoRecord
    /\ results = <<>>
    /\ mach = NoRecord

ExpandAllOperations ==
    /\ pc = "inputs"
    /\ results' = << expand_all_operations(project) >>
    /\ pc' = "expanded"
    /\ UNCHANGED <<material_depth, pass_depth, passes, pecks, gen_settings, project,
                   gen, mach>>

ExpandAgain ==
    /\ pc = "expanded"
    /\ results' = Append(results, expand_all_operations(results[1]))
    /\ pc' = "expanded_twice"
    /\ UNCHANGED <<material_depth, pass_depth, passes, pecks, gen_settings, project,
                   gen, mach>>

NextExpand == ExpandAllOperations \/ ExpandAgain

SpecExpand == InitExpand /\ [][NextExpand]_vars

(* C19: applying pattern expansion to an already expanded set of           *)
(* operations returns it unchanged, for the drill, circular, hexagonal and *)
(* line operations alike.                                                  *)
C19_ExpansionIsIdempotent ==
    pc = "expanded_twice" => results[2] = results[1]


(***************************************************************************)
(* sanitize_project_name (src/src/utils/gcode_format.py).  A name is the   *)
(* sequence of its characters, each a string of one character.  The names  *)
(* of the initial states are a short head over a small alphabet (letters,  *)
(* a digit, underscore, hyphen, space, tab, newline, a special character)  *)
(* followed by a run of one character long enough to reach the limit.      *)
(***************************************************************************)
MaxNameLength == 50

AsciiLetters ==
    { "a", "b", "c", "d", "e", "f", "g", "h", "i", "j", "k", "l", "m",
      "n", "o", "p", "q", "r", "s", "t", "u", "v", "w", "x", "y", "z",
      "A", "B", "C", "D", "E", "F", "G", "H", "I", "J", "K", "L", "M",
      "N", "O", "P", "Q", "R", "S", "T", "U", "V", "W", "X", "Y", "Z" }

AsciiDigits == { "0", "1", "2", "3", "4", "5", "6", "7", "8", "9" }

\* the characters the pattern [^a-zA-Z0-9_-] does not match
KeptCharacters == AsciiLetters \cup AsciiDigits \cup { "_", "-" }

\* str.replace(old, new) for strings of one character
Replace(name, old, new) == [ i \in 1..Len(name) |-> IF name[i] = old THEN new ELSE name[i] ]

\* every whitespace character of the name becomes an underscore
SanitizeAnyWhitespace(name) ==
    LET sanitized == [ i \in 1..Len(name) |->
                         IF name[i] \in { " ", "\t", "\n" } THEN "_" ELSE name[i] ]
        kept == SelectSeq(sanitized, LAMBDA c : c \in KeptCharacters)
    IN  SubSeq(kept, 1, IF Len(kept) < MaxNameLength THEN Len(kept) ELSE MaxNameLength)

sanitize_project_name(name) ==
    LET sanitized == Replace(name, " ", "_")
        kept == SelectSeq(sanitized, LAMBDA c : c \in KeptCharacters)
    IN  SubSeq(kept, 1, IF Len(kept) < MaxNameLength THEN Len(kept) ELSE MaxNameLength)

NameAlphabet == { "a", "Z", "7", "_", "-", " ", "\t", "\n", "@" }

MaxHead == 2

NameHeads == UNION { [1..n -> NameAlphabet] : n \in 0..MaxHead }

NameRuns == { [ i \in 1..n |-> c ] : n \in {0, 48, 49, 50, 51}, c \in { "a", " ", "@" } }

InitName ==
    /\ material_depth = Zero
    /\ pass_depth = Zero
    /\ passes = <<>>
    /\ pecks = <<>>
    /\ pc = "inputs"
    /\ gen_settings = NoRecord
    /\ \E head \in NameHeads, run \in NameRuns : project = [name |-> head \o run]
    /\ gen = NoRecord
    /\ results = <<>>
    /\ mach = NoRecord

SanitizeProjectName ==
    /\ pc = "inputs"
    /\ results' = << sanitize_project_name(project.name) >>
    /\ pc' = "sanitized"
    /\ UNCHANGED <<material_depth, pass_depth, passes, pecks, gen_settings, project,
                   gen, mach>>

NextName == SanitizeProjectName

SpecName == InitName /\ [][NextName]_vars

\* the positions of the name whose character is in chars, in order
Positions(name, chars) ==
    SelectSeq([ i \in 1..Len(name) |-> i ], LAMBDA i : name[i] \in chars)

\* the sanitized name reads, position by position, the first characters of
\* the name that are in the kept set or in blanks, a blank as an underscore
ReadsKeptAndBlanks(out, name, blanks) ==
    LET positions == Positions(name, KeptCharacters \cup blanks)
    IN  /\ Len(out) = IF Len(positions) < MaxNameLength THEN Len(positions)
                      ELSE MaxNameLength
        /\ \A j \in 1..Len(out) :
             out[j] = IF name[positions[j]] \in blanks THEN "_" ELSE name[positions[j]]

(* C20, as stated: the sanitized project name is obtained by replacing     *)
(* every whitespace character inside the name with an underscore, dropping *)
(* every character other than letters, digits, underscore and hyphen, and  *)
(* truncating the result to at most 50 characters.                         *)
C20_WhitespaceBecomesUnderscore ==
    pc = "sanitized" => ReadsKeptAndBlanks(results[1], project.name, { " ", "\t", "\n" })

(* C20, amended: the sanitized project name is obtained by replacing every *)
(* space character of the name, a leading or trailing one included, with   *)
(* an underscore, dropping every character other than the ASCII letters,   *)
(* the digits, underscore and hyphen, so that a tab or a newline is        *)
(* dropped and not replaced, and keeping the first 50 characters of the    *)
(* result.                                                                 *)
C20_SpaceBecomesUnderscore ==
    pc = "sanitized" => ReadsKeptAndBlanks(results[1], project.name, { " " })

\* a name of 53 characters that starts with a tab and a space and goes on
\* with 51 letters was sanitized to an underscore and 49 letters
C20_Witness ==
    /\ pc = "sanitized"
    /\ Len(project.name) = 53
    /\ project.name[1] = "\t"
    /\ project.name[2] = " "
    /\ project.name[3] = "a"
    /\ Len(results[1]) = MaxNameLength
    /\ results[1][1] = "_"
    /\ results[1][2] = "a"


(***************************************************************************)
(* expand_linear_pattern and expand_grid_pattern on their own              *)
(* (src/src/pattern_expander.py): one pattern is drawn in the initial      *)
(* state, with counts from 0, spacings that are negative, zero or          *)
(* positive and the axis in either case, and expanded.                     *)
(***************************************************************************)
MaxCount == 3

PatternSpacings == { FromInt(-5000), Zero, FromInt(2500) }

LinearPatterns ==
    { [type |-> "pattern_linear", start_x |-> FromInt(10000), start_y |-> FromInt(20000),
       axis |-> axis, spacing |-> spacing, count |-> count] :
        axis \in { "x", "X", "y", "Y" }, spacing \in PatternSpacings, count \in 0..MaxCount }

GridPatterns ==
    { [type |-> "pattern_grid", start_x |-> FromInt(10000), start_y |-> FromInt(20000),
       x_spacing |-> x_spacing, y_spacing |-> y_spacing,
       x_count |-> x_count, y_count |-> y_count] :
        x_spacing \in PatternSpacings, y_spacing \in { FromInt(-2500), FromInt(5000) },
        x_count \in 0..MaxCount, y_count \in 0..MaxCount }

InitPattern ==
    /\ material_depth = Zero
    /\ pass_depth = Zero
    /\ passes = <<>>
    /\ pecks = <<>>
    /\ pc = "inputs"
    /\ gen_settings = NoRecord
    /\ project \in LinearPatterns \cup GridPatterns
    /\ gen = NoRecord
    /\ results = <<>>
    /\ mach = NoRecord

ExpandLinearPattern ==
    /\ pc = "inputs"
    /\ project.type = "pattern_linear"
    /\ results' = << expand_linear_pattern(project.start_x, project.start_y, project.axis,
                                           project.spacing, project.count) >>
    /\ pc' = "expanded"
    /\ UNCHANGED <<material_depth, pass_depth, passes, pecks, gen_settings, project,
                   gen, mach>>

ExpandGridPattern ==
    /\ pc = "inputs"
    /\ project.type = "pattern_grid"
    /\ results' = << expand_grid_pattern(project.start_x, project.start_y,
                                         project.x_spacing, project.y_spacing,
                                         project.x_count, project.y_count) >>
    /\ pc' = "expanded"
    /\ UNCHANGED <<material_depth, pass_depth, passes, pecks, gen_settings, project,
                   gen, mach>>

NextPattern == ExpandLinearPattern \/ ExpandGridPattern

SpecPattern == InitPattern /\ [][NextPattern]_vars

\* start + k x spacing
Stepped(start, k, spacing) == RAdd(start, RMul(FromInt(k), spacing))

\* points are the n points of a linear pattern, the k-th (from 0) being the
\* start moved k spacings along the axis
LinearPoints(points, pattern) ==
    /\ Len(points) = pattern.count
    /\ \A k \in 0..(pattern.count - 1) :
         points[k + 1] = IF pattern.axis \in { "x", "X" }
                         THEN << Stepped(pattern.start_x, k, pattern.spacing), pattern.start_y >>
                         ELSE << pattern.start_x, Stepped(pattern.start_y, k, pattern.spacing) >>

\* points are the x_count x y_count points of a grid, row after row
RowMajorPoints(points, pattern) ==
    /\ Len(points) = pattern.x_count * pattern.y_count
    /\ \A row \in 0..(pattern.y_count - 1) : \A col \in 0..(pattern.x_count - 1) :
         points[row * pattern.x_count + col + 1]
             = << Stepped(pattern.start_x, col, pattern.x_spacing),
                  Stepped(pattern.start_y, row, pattern.y_spacing) >>

(* C23: expanding a linear pattern with count n yields exactly n points,   *)
(* none when n = 0, the k-th being start + k x spacing along the axis, and *)
(* expanding a grid yields exactly x_count x y_count points in row-major   *)
(* order, y outer and x inner.                                             *)
C23_PatternPointsInOrder ==
    pc = "expanded" =>
        IF project.type = "pattern_linear" THEN LinearPoints(results[1], project)
        ELSE RowMajorPoints(results[1], project)

\* a grid of three columns and two rows was expanded: its fourth point is
\* the first of the second row
C23_Witness ==
    /\ pc = "expanded"
    /\ project.type = "pattern_grid"
    /\ project.x_count = 3
    /\ project.y_count = 2
    /\ project.x_spacing = FromInt(2500)
    /\ project.y_spacing = FromInt(5000)
    /\ Len(results[1]) = 6
    /\ results[1][4] = << FromInt(10000), FromInt(25000) >>


(***************************************************************************)
(* The frame of the main program, on the programs of SpecRun.              *)
(***************************************************************************)
\* the words of a line, without the annotations of the model
Words(line) == [ w \in DOMAIN line \ { "role", "kind", "op", "pass" } |-> line[w] ]

\* the spindle speed of the program at hand: the drill parameters come
\* first, then the cut parameters
SpindleSpeedOfProject ==
    IF Has(project, "operations") THEN DrillEntry.spindle_speed
    ELSE IF project.drill_params # None THEN project.drill_params[1].spindle_speed
    ELSE IF project.cut_params # None THEN project.cut_params[1].spindle_speed
    ELSE DefaultSpindleSpeed

HeaderWords ==
    << [g |-> "G20 G90"],
       [g |-> "G00", X |-> 0, Y |-> 0, Z |-> 0],
       [g |-> "G00", Z |-> FormatCoordinate(gen_settings.safety_height)],
       [g |-> "M03", S |-> SpindleSpeedOfProject],
       [g |-> "G04", P |-> gen_settings.spindle_warmup_seconds] >>

FooterWords ==
    << [g |-> "M05"],
       [g |-> "G00", Z |-> FormatCoordinate(gen_settings.safety_height)],
       [g |-> "G00", X |-> 0, Y |-> 0],
       [g |-> "M30"] >>

\* main begins with the header, ends with the footer, and no line between
\* them starts or stops the spindle, sets the units or ends the program
FramedByHeaderAndFooter(main) ==
    /\ Len(main) >= Len(HeaderWords) + Len(FooterWords)
    /\ \A i \in 1..Len(HeaderWords) : Words(main[i]) = HeaderWords[i]
    /\ \A i \in 1..Len(FooterWords) :
         Words(main[Len(main) - Len(FooterWords) + i]) = FooterWords[i]
    /\ \A i \in (Len(HeaderWords) + 1)..(Len(main) - Len(FooterWords)) :
         main[i].g \notin { "G20 G90", "M03", "M05", "M30" }

(* C25: for any set of operations the main program begins with exactly the *)
(* header lines G20 G90, G00 X0 Y0 Z0, G00 Z<safety_height>,               *)
(* M03 S<spindle_speed>, G04 P<warmup_seconds> in that order and ends with *)
(* exactly the footer lines M05, G00 Z<safety_height>, G00 X0 Y0, M30 in   *)
(* that order, with every operation line lying between them.               *)
C25_HeaderFirstFooterLast ==
    results # <<>> => FramedByHeaderAndFooter(Program.main_gcode)

\* a program with operation lines between header and footer was generated
\* for a cut project, with the spindle speed of the cut parameters
C25_Witness ==
    /\ pc = "generated"
    /\ ~Has(project, "operations")
    /\ Len(Program.main_gcode) > Len(HeaderWords) + Len(FooterWords)
    /\ Program.main_gcode[4].S = CutParams.spindle_speed
    /\ Program.main_gcode[6].g = "G00"


(* C28: for the same cut, subroutine emission, N relative descents of the  *)
(* per-pass depth as formatted to 4 decimals, and inline emission,         *)
(* absolute descents to the formatted cumulative depths, reach the same    *)
(* final Z, equal to minus the material depth at 4-decimal precision.      *)
C28_SameFinalDepth ==
    (Machining /\ mach.last.kind \in CutKinds) =>
        /\ (mach.last.sub # 0 /\ mach.last.line.g = "M99" /\ mach.last.k = mach.last.L)
              => mach.z = -FormatCoordinate(material_depth)
        /\ (mach.last.sub = 0 /\ mach.last.line.role = "descent"
                              /\ mach.last.pass = CutPasses - 1)
              => mach.z = -FormatCoordinate(material_depth)


\* the XY position of the rapid that positions the tool for cut operation op
PositionedAt(op) ==
    LET main == Program.main_gcode
        k == CHOOSE k \in DOMAIN main :
                 main[k].role = "position" /\ main[k].kind \in CutKinds /\ main[k].op = op
    IN  << main[k].X, main[k].Y >>

(* C27: in a multi-pass cut, inline or by L = N invocations of a           *)
(* subroutine, every pass begins its descent from the XY position the      *)
(* first pass began its descent from, the one the tool was positioned at   *)
(* before the cut, for open paths as well as closed ones.                  *)
C27_EveryPassDescendsFromStart ==
    (Machining /\ mach.last.kind \in CutKinds /\ mach.last.line.role = "descent") =>
        << mach.last.from[1], mach.last.from[2] >> = PositionedAt(mach.last.op)

\* the descents of closed profiles only
Side27Closed ==
    (Machining /\ mach.last.kind \in {"circular", "hexagonal"}
               /\ mach.last.line.role = "descent") =>
        << mach.last.from[1], mach.last.from[2] >> = PositionedAt(mach.last.op)

\* the first descent of every cut
Side27First ==
    (Machining /\ mach.last.kind \in CutKinds /\ mach.last.line.role = "descent"
               /\ mach.last.pass = 0 /\ mach.last.k <= 1) =>
        << mach.last.from[1], mach.last.from[2] >> = PositionedAt(mach.last.op)


\* the lines emitted for cut operation op of a kind: those of the main
\* program, and the body of every subroutine they call
CutLinesOf(kind, op) ==
    LET main == Program.main_gcode
        own == SelectSeq(main, LAMBDA l : Has(l, "kind") /\ l.kind = kind /\ l.op = op)
        calls == SelectSeq(own, LAMBDA l : l.g = "M98")
    IN  own \o ConcatAll([ k \in 1..Len(calls) |->
                              IF calls[k].sub \in DOMAIN Program.subroutines
                              THEN Program.subroutines[calls[k].sub] ELSE <<>> ])

\* the profile of the operation is closed: circles and hexagons are, a line
\* cut is when its first and last points coincide within 0.0001
ClosedProfile(kind, op) ==
    kind \in {"circular", "hexagonal"} \/ is_closed_path(LineCuts[op].points)

\* a lead-in is in use: the descent of a pass travels in XY
LeadInInUse(lines) ==
    \E k \in DOMAIN lines :
        lines[k].role = "descent" /\ (Has(lines[k], "X") \/ Has(lines[k], "Y"))

HasLeadOut(lines) == \E k \in DOMAIN lines : lines[k].role = "leadout"

\* the last line of the operation that moves the tool in XY at feed
LastFeedMove(lines) ==
    LET feeds == SelectSeq(lines, LAMBDA l : l.role \in {"descent", "profile", "leadout"}
                                             /\ (Has(l, "X") \/ Has(l, "Y")))
    IN  feeds[Len(feeds)]

EmittedCuts ==
    { c \in CutKinds \X (1..2) :
        \E k \in DOMAIN Program.main_gcode :
            /\ Has(Program.main_gcode[k], "kind")
            /\ Program.main_gcode[k].kind = c[1] /\ Program.main_gcode[k].op = c[2] }

(* C22: a lead-out move back to the lead-in point is emitted after the     *)
(* profile if and only if the profile is closed and a lead-in is in use;   *)
(* an open path ends at its last profile point with no lead-out.           *)
C22_LeadOutIffClosedWithLeadIn ==
    (results # <<>> /\ ~Has(project, "operations")) =>
        \A c \in EmittedCuts :
            LET lines == CutLinesOf(c[1], c[2])
                closed == ClosedProfile(c[1], c[2])
            IN  /\ HasLeadOut(lines) <=> (closed /\ LeadInInUse(lines))
                /\ ~closed =>
                      LET path == LineCuts[c[2]].points
                          last == LastFeedMove(lines)
                      IN  /\ last.role = "profile"
                          /\ last.X = FormatCoordinate(path[Len(path)].x)
                          /\ last.Y = FormatCoordinate(path[Len(path)].y)

\* a closed line path was cut with a ramp lead-in and has its lead-out, in
\* a subroutine
C22_Witness ==
    /\ pc = "generated"
    /\ ~Has(project, "operations")
    /\ <<"line", 1>> \in EmittedCuts
    /\ ClosedProfile("line", 1)
    /\ gen_settings.supports_subroutines
    /\ LeadInInUse(CutLinesOf("line", 1))
    /\ HasLeadOut(CutLinesOf("line", 1))

\* an open line path was cut with a ramp lead-in
Side22Open ==
    ~ /\ pc = "generated"
      /\ ~Has(project, "operations")
      /\ <<"line", 1>> \in EmittedCuts
      /\ ~ClosedProfile("line", 1)
      /\ LeadInInUse(CutLinesOf("line", 1))

\* a circle was cut inline with a ramp lead-in
Side22Circle ==
    ~ /\ pc = "generated"
      /\ <<"circular", 1>> \in EmittedCuts
      /\ ~gen_settings.supports_subroutines
      /\ HasLeadOut(CutLinesOf("circular", 1))


\* the travel height as the program prints it
PrintedTravelHeight == FormatCoordinate(gen_settings.travel_height)

\* the line just executed is a rapid with an X or Y word, after the header
RapidInXY ==
    /\ Machining
    /\ mach.last.line.g = "G00"
    /\ mach.last.line.role # "header"
    /\ (Has(mach.last.line, "X") \/ Has(mach.last.line, "Y"))

(* C29: after the header, every rapid move with an X or Y word, in the     *)
(* main program or in a subroutine, starts and ends with the tool at or    *)
(* above the travel height; the tool never moves laterally at rapid speed  *)
(* at or below Z = 0.                                                      *)
C29_RapidsAtTravelHeight ==
    RapidInXY => /\ mach.last.from[3] >= PrintedTravelHeight
                 /\ mach.z >= PrintedTravelHeight
                 /\ mach.last.from[3] > 0
                 /\ mach.z > 0

\* a rapid of a drill pattern subroutine moved the tool to the next hole
C29_Witness ==
    /\ RapidInXY
    /\ mach.last.sub # 0
    /\ << mach.last.from[1], mach.last.from[2] >> # << mach.x, mach.y >>
    /\ mach.z >= PrintedTravelHeight

\* a rapid positioned the tool for a cut after the header
Side29Cut ==
    ~ /\ RapidInXY
      /\ mach.last.kind \in CutKinds
      /\ << mach.last.from[1], mach.last.from[2] >> # << mach.x, mach.y >>

\* the rapid of the footer returned the tool to the origin
Side29Footer ==
    ~ /\ RapidInXY
      /\ mach.last.line.role = "footer"
      /\ << mach.last.from[1], mach.last.from[2] >> # << mach.x, mach.y >>


\* a printed coordinate lies on the table along an axis of length max
OnTable(word, max) == 0 <= word /\ word <= FormatCoordinate(max)

(* C30: if validation passes with negative coordinates disallowed, every   *)
(* X and Y position the main program commands, lead-in points and          *)
(* tool-compensated profile points included, lies within [0, max_x] x      *)
(* [0, max_y].                                                             *)
C30_CommandedPositionsOnTable ==
    (results # <<>> /\ Has(project, "operations") /\ validate(project) = <<>>
                    /\ ~GeneralSettings.allow_negative_coordinates) =>
        \A k \in DOMAIN Program.main_gcode :
            LET line == Program.main_gcode[k]
            IN  /\ Has(line, "X") => OnTable(line.X, MachineSettings.max_x)
                /\ Has(line, "Y") => OnTable(line.Y, MachineSettings.max_y)

\* without a lead-in the positions of a valid project are on the table
Side30NoLeadIn ==
    (results # <<>> /\ Has(project, "operations") /\ validate(project) = <<>>
                    /\ gen_settings.line_lead_in_type = "none") =>
        \A k \in DOMAIN Program.main_gcode :
            LET line == Program.main_gcode[k]
            IN  /\ Has(line, "X") => OnTable(line.X, MachineSettings.max_x)
                /\ Has(line, "Y") => OnTable(line.Y, MachineSettings.max_y)


(***************************************************************************)
(* src/src/utils/gcode_format.py: the text of a line of the main program,  *)
(* as a sequence of characters.  A line is its command word followed by    *)
(* the words it carries, separated by one space: X, Y, Z, I, J with 4      *)
(* decimals, F with 1 decimal, S, P and L as integers.  The header and the *)
(* footer print the origin as X0 Y0 Z0.  The sign of a zero that Python    *)
(* prints for a negative zero is not part of the text modelled, and of the *)
(* path of a subroutine file only the file name is.                        *)
(***************************************************************************)
Numeral == << "0", "1", "2", "3", "4", "5", "6", "7", "8", "9" >>

RECURSIVE Decimal(_)
Decimal(n) ==
    IF n < 10 THEN << Numeral[n + 1] >>
    ELSE Decimal(n \div 10) \o << Numeral[(n % 10) + 1] >>

RECURSIVE Padded(_, _)
Padded(n, width) ==
    IF width = 0 THEN <<>> ELSE Padded(n \div 10, width - 1) \o << Numeral[(n % 10) + 1] >>

RECURSIVE TenTo(_)
TenTo(precision) == IF precision = 0 THEN 1 ELSE 10 * TenTo(precision - 1)

\* format_coordinate: the text of value / 10^precision printed with
\* precision decimals
CoordinateText(value, precision) ==
    LET magnitude == IF value < 0 THEN -value ELSE value
    IN  (IF value < 0 THEN << "-" >> ELSE <<>>)
        \o Decimal(magnitude \div TenTo(precision))
        \o << "." >> \o Padded(magnitude % TenTo(precision), precision)

\* the command words, were the spindle stop printed with a remark
WordTextWithRemark(word) ==
    CASE word = "G20 G90" -> << "G", "2", "0", " ", "G", "9", "0" >>
      [] word = "G00" -> << "G", "0", "0" >>
      [] word = "G01" -> << "G", "0", "1" >>
      [] word = "G02" -> << "G", "0", "2" >>
      [] word = "G03" -> << "G", "0", "3" >>
      [] word = "G04" -> << "G", "0", "4" >>
      [] word = "G90" -> << "G", "9", "0" >>
      [] word = "G91" -> << "G", "9", "1" >>
      [] word = "M03" -> << "M", "0", "3" >>
      [] word = "M05" -> << "M", "0", "5", " ", "(", "s", "t", "o", "p", ")" >>
      [] word = "M30" -> << "M", "3", "0" >>
      [] word = "M98" -> << "M", "9", "8" >>
      [] word = "M99" -> << "M", "9", "9" >>
      [] word = "cw" -> << "c", "w" >>
      [] word = "ccw" -> << "c", "c", "w" >>
      [] word = "%" -> << "%" >>

\* the command words the generator prints
WordText(word) ==
    CASE word = "G20 G90" -> << "G", "2", "0", " ", "G", "9", "0" >>
      [] word = "G00" -> << "G", "0", "0" >>
      [] word = "G01" -> << "G", "0", "1" >>
      [] word = "G02" -> << "G", "0", "2" >>
      [] word = "G03" -> << "G", "0", "3" >>
      [] word = "G04" -> << "G", "0", "4" >>
      [] word = "G90" -> << "G", "9", "0" >>
      [] word = "G91" -> << "G", "9", "1" >>
      [] word = "M03" -> << "M", "0", "3" >>
      [] word = "M05" -> << "M", "0", "5" >>
      [] word = "M30" -> << "M", "3", "0" >>
      [] word = "M98" -> << "M", "9", "8" >>
      [] word = "M99" -> << "M", "9", "9" >>
      [] word = "cw" -> << "c", "w" >>
      [] word = "ccw" -> << "c", "c", "w" >>
      [] word = "%" -> << "%" >>

\* one word of a line: the letter and its number, after a space
ArgumentText(line, letter) ==
    IF ~Has(line, letter) THEN <<>>
    ELSE << " ", letter >>
         \o (IF letter \in {"S", "P", "L"} THEN Decimal(line[letter])
             ELSE IF letter = "F" THEN CoordinateText(line[letter], 1)
             ELSE IF line.role \in {"header", "footer"} /\ Has(line, "X")
             THEN Decimal(line[letter])
             ELSE CoordinateText(line[letter], 4))

LineText(line) ==
    IF line.g = "M98"
    THEN WordText("M98") \o << " ", "(", "-" >> \o Decimal(line.sub) \o << ".", "n", "c", ")" >>
         \o ArgumentText(line, "L")
    ELSE WordText(line.g)
         \o ArgumentText(line, "X") \o ArgumentText(line, "Y") \o ArgumentText(line, "Z")
         \o ArgumentText(line, "I") \o ArgumentText(line, "J") \o ArgumentText(line, "F")
         \o ArgumentText(line, "S") \o ArgumentText(line, "P")

Contains(text, characters) == \E k \in DOMAIN text : text[k] \in characters

CommentCharacters == { ";", "(", ")" }

Side24Header ==
    results # <<>> =>
        /\ LineText(Program.main_gcode[1]) = << "G", "2", "0", " ", "G", "9", "0" >>
        /\ LineText(Program.main_gcode[2])
              = << "G", "0", "0", " ", "X", "0", " ", "Y", "0", " ", "Z", "0" >>
        /\ LineText(Program.main_gcode[3])
              = << "G", "0", "0", " ", "Z", "0", ".", "5", "0", "0", "0" >>
        /\ LineText(Program.main_gcode[5]) = << "G", "0", "4", " ", "P", "2" >>


(***************************************************************************)
(* Helical lead-in.  The generator is asked for a helix on circles and     *)
(* hexagons, through the settings or through the manual mode of a circle.  *)
(* With the 0.125 inch end mill a circle of diameter 0.2 and a hexagon of  *)
(* 0.2 across flats are too small for a helix; circles of 0.3 and 0.5 and  *)
(* a hexagon of 0.5 have room for one.  With subroutines the shapes in     *)
(* automatic mode are the small ones.  At a pitch of 0.04 a pass of 0.05   *)
(* or 0.0417 takes two revolutions, at a pitch of 0.1 one.                 *)
(***************************************************************************)
HelixSettings ==
    { [BaseSettings EXCEPT !.supports_subroutines = b,
                           !.circle_lead_in_type = "helical",
                           !.hexagon_lead_in_type = "helical",
                           !.helix_pitch = pitch] :
        b \in BOOLEAN, pitch \in {FromInt(400), FromInt(1000)} }

ManualCircle(diameter, approach_angle) ==
    [Circle(10000, 10000, diameter, Zero) EXCEPT !.lead_in_mode = "manual",
                                                  !.lead_in_type = "helical",
                                                  !.lead_in_approach_angle = approach_angle]

\* projects that are cut inline or whose shapes are too small for a helix
HelixProjectsAnyEmission ==
    { CutProject(<< Circle(10000, 10000, 2000, Zero) >>, <<>>, <<>>),
      CutProject(<<>>, << Hexagon(10000, 10000, 2000, Zero) >>, <<>>),
      CutProject(<< Circle(10000, 10000, 2000, Zero), Circle(20000, 10000, 2000, Zero) >>,
                 << Hexagon(30000, 10000, 2000, Zero) >>, <<>>) }
    \cup { CutProject(<< ManualCircle(d, a) >>, <<>>, <<>>) :
             d \in {2000, 5000}, a \in {0, 90, 180} }

\* projects with room for a helix in a shape of automatic mode
HelixProjectsInline ==
    { CutProject(<< Circle(10000, 10000, d, Zero) >>, <<>>, <<>>) : d \in {3000, 5000} }
    \cup { CutProject(<<>>, << Hexagon(10000, 10000, 5000, Zero) >>, <<>>),
           CutProject(<< Circle(10000, 10000, 2000, Zero), Circle(20000, 10000, 5000, Zero) >>,
                      << Hexagon(30000, 10000, 2000, Zero) >>, <<>>) }

InitHelix ==
    /\ material_depth \in {FromInt(1000), FromInt(1250)}
    /\ pass_depth = Zero
    /\ passes = <<>>
    /\ pecks = <<>>
    /\ pc = "constructed"
    /\ gen_settings \in HelixSettings
    /\ \/ project \in HelixProjectsAnyEmission
       \/ project \in HelixProjectsInline /\ ~gen_settings.supports_subroutines
    /\ gen = NewGeneratorState
    /\ results = <<>>
    /\ mach = NoRecord

NextHelix == Generate \/ NewGenerator

SpecHelix == InitHelix /\ [][NextHelix]_vars

CircularCuts == project.expanded_ops.circular_cuts
HexagonalCuts == project.expanded_ops.hexagonal_cuts

\* the lead-in type asked for a shape: that of the shape in manual mode,
\* that of the settings otherwise
RequestedLeadIn(shape, of_settings) ==
    IF shape.lead_in_mode = "manual" THEN shape.lead_in_type ELSE of_settings

\* a helix was asked for the circle and the helix radius computed for it is
\* below 0.05
CircleTooSmallForHelix(circle) ==
    /\ RequestedLeadIn(circle, gen_settings.circle_lead_in_type) = "helical"
    /\ calculate_helix_radius_for_circle(
           calculate_cut_radius(circle.diameter, CutParams.tool_diameter,
                                circle.compensation),
           CutParams.tool_diameter) = None

HexagonTooSmallForHelix(hexagon) ==
    /\ RequestedLeadIn(hexagon, gen_settings.hexagon_lead_in_type) = "helical"
    /\ calculate_helix_radius_for_hexagon(hexagon.flat_to_flat, CutParams.tool_diameter,
                                          hexagon.compensation) = None

\* the warning that names the shape is among those of the result
WarnedTooSmall(shape_desc) ==
    \E n \in DOMAIN Program.warnings :
        /\ Program.warnings[n].kind = "too_small_for_helical"
        /\ Program.warnings[n].shape = shape_desc

\* the cut was emitted, with a ramp and without a helix, and was retracted
CutWithRamp(lines) ==
    /\ LeadInInUse(lines)
    /\ \A n \in DOMAIN lines : lines[n].role # "helix"
    /\ \E n \in DOMAIN lines : lines[n].role = "profile"
    /\ \E n \in DOMAIN lines : lines[n].role = "retract"

(* C21: whenever a helical lead-in is requested for a circle or hexagon    *)
(* that is too small for a helix, computed helix radius below 0.05, a      *)
(* warning is recorded, the cut is emitted with a ramp lead-in instead of  *)
(* a helical one, and generation continues to the footer.                  *)
C21_TooSmallForHelixFallsBackToRamp ==
    (results # <<>> /\ ~Has(project, "operations")) =>
        /\ \A k \in DOMAIN CircularCuts :
              CircleTooSmallForHelix(CircularCuts[k]) =>
                  /\ WarnedTooSmall(<< "Circle", CircularCuts[k].diameter >>)
                  /\ CutWithRamp(CutLinesOf("circular", k))
        /\ \A k \in DOMAIN HexagonalCuts :
              HexagonTooSmallForHelix(HexagonalCuts[k]) =>
                  /\ WarnedTooSmall(<< "Hexagon", HexagonalCuts[k].flat_to_flat,
                                       HexagonalCuts[k].center_x, HexagonalCuts[k].center_y >>)
                  /\ CutWithRamp(CutLinesOf("hexagonal", k))
        /\ FooterWords = [ n \in 1..Len(FooterWords) |->
                             Words(Program.main_gcode[Len(Program.main_gcode)
                                                      - Len(FooterWords) + n]) ]

\* a small circle was followed by a circle with room for a helix and by a
\* small hexagon: the first and the last were cut with a ramp and warned
\* about, the second with a helix
C21_Witness ==
    /\ pc = "generated"
    /\ Len(CircularCuts) = 2 /\ Len(HexagonalCuts) = 1
    /\ CircleTooSmallForHelix(CircularCuts[1])
    /\ ~CircleTooSmallForHelix(CircularCuts[2])
    /\ HexagonTooSmallForHelix(HexagonalCuts[1])
    /\ WarnedTooSmall(<< "Circle", CircularCuts[1].diameter >>)
    /\ CutWithRamp(CutLinesOf("circular", 1))
    /\ \E n \in DOMAIN CutLinesOf("circular", 2) : CutLinesOf("circular", 2)[n].role = "helix"
    /\ CutWithRamp(CutLinesOf("hexagonal", 1))

\* a small circle was cut through a subroutine with a ramp
Side21Subroutine ==
    ~ /\ pc = "generated"
      /\ gen_settings.supports_subroutines
      /\ Len(CircularCuts) = 1
      /\ CircularCuts[1].lead_in_mode = "auto"
      /\ CircleTooSmallForHelix(CircularCuts[1])
      /\ \E n \in DOMAIN Program.main_gcode : Program.main_gcode[n].g = "M98"
      /\ CutWithRamp(CutLinesOf("circular", 1))


\* the lines of the main program that belong to pass number n, counted from
\* 0, of cut operation op of a kind and carry a Z word
DepthsOfPass(kind, op, n) ==
    SelectSeq(Program.main_gcode,
              LAMBDA l : /\ Has(l, "pass") /\ Has(l, "Z")
                         /\ l.kind = kind /\ l.op = op /\ l.pass = n)

\* the depth reached at the end of pass n
DepthReachedBy(kind, op, n) ==
    DepthsOfPass(kind, op, n)[Len(DepthsOfPass(kind, op, n))].Z

(* C26: in inline emission of a multi-pass cut with any lead-in type, a    *)
(* helical lead-in of two or more revolutions per pass included, the       *)
(* commanded Z never rises between the first descent and the final         *)
(* retract: every Z commanded during pass i is at or below the depth       *)
(* reached at the end of pass i-1.                                         *)
C26_DepthNeverRisesBetweenPasses ==
    (results # <<>> /\ ~Has(project, "operations")) =>
        \A k \in DOMAIN Program.main_gcode :
            LET line == Program.main_gcode[k]
            IN  (Has(line, "pass") /\ Has(line, "Z") /\ line.pass >= 1) =>
                    line.Z <= DepthReachedBy(line.kind, line.op, line.pass - 1)

\* the same for the helices of one revolution per pass, pitch 0.1
Side26OneRevolution ==
    (results # <<>> /\ gen_settings.helix_pitch = FromInt(1000)) =>
        \A k \in DOMAIN Program.main_gcode :
            LET line == Program.main_gcode[k]
            IN  (Has(line, "pass") /\ Has(line, "Z") /\ line.pass >= 1) =>
                    line.Z <= DepthReachedBy(line.kind, line.op, line.pass - 1)

\* a helix of one revolution per pass was cut in a second pass
Side26Reached ==
    ~ /\ results # <<>> /\ gen_settings.helix_pitch = FromInt(1000)
      /\ \E k \in DOMAIN Program.main_gcode :
            Program.main_gcode[k].role = "helix" /\ Program.main_gcode[k].pass = 1

====
